---- MODULE Spec2Model ----
(***************************************************************************)
(* A state-machine model of livegrep's code_searcher / searcher            *)
(* (src/codesearch.cc): the corpus builder (update_stats, finalize) and    *)
(* the parallel regex search (match_internal, search_one, filtered_search, *)
(* search_lines, next_range, full_search, find_match, try_match,           *)
(* finish_group, exit_early).                                              *)
(*                                                                         *)
(* Bytes are naturals, a chunk's data is a sequence of bytes addressed by  *)
(* 0-based offsets as in the C++ code, and a StringPiece is a record       *)
(* [c, o, n]: chunk number, offset of data(), size().                      *)
(***************************************************************************)
EXTENDS Integers, Sequences, FiniteSets, TLC

VARIABLES
    files_,      \* code_searcher::files_ : sequence of search_file, files_[no+1]
    lines_,      \* code_searcher::lines_ : the line-intern set (StringPieces)
    chunks,      \* the allocator's chunks, in allocation order
    stats_,      \* code_searcher::stats_
    finalized_,  \* code_searcher::finalized_
    ingested,    \* history: every (ref, path, blob) handed to update_stats
    crashed,     \* an assert() failed: the process is gone
    FLAGS,       \* the gflags: [index, search, max_matches, timeout]
    query,       \* match_internal's call: [state, pat, file_pat, index_]
    exit_reason_,     \* searcher::exit_reason_
    matches_,         \* searcher::matches_ (atomic_int)
    searcher_files_,  \* searcher::files_ : the per-file accept cache
    files_density_,   \* searcher::files_density_ : [known, hits, sample]
    expired,     \* gettimeofday() is past searcher::limit_
    results,     \* match_internal's thread_queue<match_result*>
    pool,        \* thread_pool's task queue: chunk numbers
    workers,     \* the pool's threads: position and locals of each
    pending,     \* match_internal: sentinels still to come
    matches,     \* match_internal: results popped so far
    stats,       \* the caller's match_stats
    popped       \* history: everything match_internal popped, in order

corpusVars == <<files_, lines_, chunks, stats_, finalized_, ingested, crashed>>

searchVars == <<query, exit_reason_, matches_, searcher_files_, files_density_,
                expired, results, pool, workers, pending, matches, stats, popped>>

vars == <<corpusVars, FLAGS, searchVars>>

-----------------------------------------------------------------------------
(* Bytes *)

NUL == 0
NL == 10
ByteA == 97
ByteB == 98
ByteC == 99
ByteBad == 255

(* Program constants *)
kMinSkip == 250
kMinFilterRatio == 50
kMaxScan == 1048576
kContextLines == 3
kSmallSlice == 100           \* filtered_search: a slice this small is copied
kDensityScale == 30          \* search_lines: count * 30 / size
kDensitySample == 1000       \* files_density: at most this many draws
kUnknown == 255              \* 0xff: accept cache entry not computed yet
DefaultMaxMatches == 50      \* --max_matches
DefaultTimeout == 1          \* --timeout

kExitNone == "kExitNone"
kExitMatchLimit == "kExitMatchLimit"
kExitTimeout == "kExitTimeout"

(* Bounds of the model *)
MaxIngest == 2          \* update_stats calls per behaviour of the builder
ChunkCapacity == 270    \* bytes per chunk (kChunkSize of chunk.h)
FillerLines == 3        \* lines of the large blobs
FillerWidth == 84       \* the large blobs' lines are longer than this
Threads == 2            \* --threads: workers of the pool
QueueBound == 2         \* capacity of the result queue
SmallCap == 1           \* the small value of --max_matches
MaxKeyWidth == 2        \* widest byte range an IndexKey edge carries

-----------------------------------------------------------------------------
(* Helpers on sequences of bytes *)

\* F applied to the value of v: the argument is computed once, as a C++
\* argument passed by value is
ByValue(F(_), v) == CHOOSE r \in {F(x) : x \in {v}} : TRUE

Max2(a, b) == IF a >= b THEN a ELSE b
Min2(a, b) == IF a <= b THEN a ELSE b

\* memchr(s + p, ch, len(s) - p): 0-based offset of the first ch at or after
\* p, or -1.
memchr(s, p, ch) ==
    LET hits == {i \in p..(Len(s) - 1) : s[i + 1] = ch}
    IN IF hits = {} THEN -1 ELSE CHOOSE i \in hits : \A j \in hits : i <= j

\* memrchr(s, ch, n): 0-based offset of the last ch in s[0..n), or -1.
memrchr(s, ch, n) ==
    LET hits == {i \in 0..(Min2(n, Len(s)) - 1) : s[i + 1] = ch}
    IN IF hits = {} THEN -1 ELSE CHOOSE i \in hits : \A j \in hits : i >= j

\* count(s + from, s + to, ch)
count(s, from, to, ch) == Cardinality({i \in from..(to - 1) : s[i + 1] = ch})

\* bytes [o, o + n) of s
Bytes(s, o, n) == SubSeq(s, o + 1, o + n)

Rep(ch, n) == [i \in 1..n |-> ch]

RECURSIVE Concat(_)
Concat(ss) == IF ss = <<>> THEN <<>> ELSE Head(ss) \o Concat(Tail(ss))

-----------------------------------------------------------------------------
(* Inputs: blobs and paths *)

BlobAB    == <<ByteA, NL, ByteB, NL>>
BlobBAB   == <<ByteB, NL, ByteA, NL, ByteB, NL>>
BlobBlank == <<NL, NL, ByteA, NL>>
BlobTail  == <<ByteA, ByteB, NL, ByteB>>
BlobNul   == <<ByteA, NUL, NL>>
BlobBad   == <<ByteB, ByteBad, NL, ByteA, ByteB, NL>>
\* FillerLines lines "cc..c" of growing length: a blob larger than kMinSkip
BlobFiller == Concat([i \in 1..FillerLines |-> Rep(ByteC, FillerWidth + i) \o <<NL>>])
\* two lines, with a 'b' at each end of the first
BlobWide == <<ByteB>> \o Rep(ByteA, FillerLines) \o <<ByteB, NL>>
            \o Rep(ByteA, FillerLines) \o <<NL>>
\* one line with a 'c' at each end, the two more than kMinSkip bytes apart
BlobLong == <<ByteC>> \o Rep(ByteA, kMinSkip) \o <<ByteC, NL>>

PathSrc  == <<"src", "a">>
PathTest == <<"test", "b">>
GitPath(ref, path) == [ref |-> ref, path |-> path]

\* one blob of a walked tree, as walk_tree hands it to update_stats
Blob(ref, path, blob) == [ref |-> ref, path |-> path, blob |-> blob]

\* the blobs the builder is fed
Inputs ==
    {Blob("r1", PathSrc, BlobAB), Blob("r2", PathSrc, BlobAB),
     Blob("r1", PathTest, BlobAB), Blob("r1", PathTest, BlobBAB),
     Blob("r2", PathSrc, BlobBAB), Blob("r1", PathSrc, BlobBlank),
     Blob("r2", PathSrc, BlobTail), Blob("r1", PathTest, BlobNul),
     Blob("r1", PathSrc, BlobBad), Blob("r1", PathTest, BlobFiller),
     Blob("r2", PathSrc, BlobWide)}

-----------------------------------------------------------------------------
(* The corpus builder *)

StringPiece(c, o, n) == [c |-> c, o |-> o, n |-> n]

\* the bytes a StringPiece denotes
Content(chs, sp) == Bytes(chs[sp.c].data, sp.o, sp.n)

NewChunk == [data |-> <<>>, files |-> <<>>, open |-> FALSE,
             suffixes |-> <<>>, cf_root |-> 0, tree |-> <<>>]

NewStats == [bytes |-> 0, files |-> 0, dedup_files |-> 0,
             dedup_bytes |-> 0, dedup_lines |-> 0, lines |-> 0]

\* chunk_allocator::alloc(n): the chunks with room for n bytes in the
\* current (last) chunk; rolls to a new chunk when the request does not fit.
alloc(chs, n) ==
    IF chs = <<>> \/ Len(chs[Len(chs)].data) + n > ChunkCapacity
    THEN Append(chs, NewChunk)
    ELSE chs

\* chunk::add_chunk_file(sf, span), span = the interned line with its
\* terminator: start = line.o, size = line.n + 1.
add_chunk_file(ch, sf, line) ==
    LET n == Len(ch.files)
        start == line.o
        size == line.n + 1
    IN IF n > 0 /\ ch.open /\ ch.files[n].files = <<sf>>
          /\ ch.files[n].right + 1 = start
       THEN [ch EXCEPT !.files[n].right = start + size - 1]
       ELSE [ch EXCEPT !.files = Append(@, [left |-> start,
                                            right |-> start + size - 1,
                                            files |-> <<sf>>]),
                       !.open = TRUE]

\* chunk::finish_file(): closes the chunk's open ChunkFile
finish_file(ch) == [ch EXCEPT !.open = FALSE]

\* (mutant of lines_find: no line is ever found in the intern set)
lines_find_none(b, bytes) == {}

\* lines_.find(line): the interned StringPieces with these bytes (eqstr
\* compares contents)
lines_find(b, bytes) == {sp \in b.lines_ : Content(b.chunks, sp) = bytes}

\* update_stats, lines 498-500: is the new line adjacent to the last segment?
content_adjacent(back, line) ==
    back.c = line.c /\ back.o + back.n = line.o

\* update_stats, lines 497-507: the segment list after the line is recorded
content_add(content, line) ==
    IF content # <<>> /\ content_adjacent(content[Len(content)], line)
    THEN [content EXCEPT ![Len(content)] =
              StringPiece(@.c, @.o, (line.o - @.o) + line.n)]
    ELSE Append(content, StringPiece(line.c, line.o, line.n))

\* (mutant of record_chunk_file: the file is recorded on an intern miss only)
record_chunk_file_miss_only(chs, c, no, line, miss) ==
    IF miss THEN [chs EXCEPT ![c] = add_chunk_file(@, no, line)] ELSE chs

\* update_stats, line 497: the chunk that holds the line records the file,
\* on an intern miss and on an intern hit alike
record_chunk_file(chs, c, no, line, miss) ==
    [chs EXCEPT ![c] = add_chunk_file(@, no, line)]

\* update_stats, lines 481-509: one iteration of the line loop, for the line
\* with the given bytes. b = [chunks, lines_, content, stats_].
ingest_line(b, no, bytes) ==
    LET hit == lines_find(b, bytes)
        miss == hit = {}
        chs1 == IF miss THEN alloc(b.chunks, Len(bytes) + 1) ELSE b.chunks
        line == IF miss
                THEN StringPiece(Len(chs1), Len(chs1[Len(chs1)].data), Len(bytes))
                ELSE CHOOSE sp \in hit : TRUE
        chs2 == IF miss
                THEN [chs1 EXCEPT ![line.c].data = @ \o bytes \o <<NL>>]
                ELSE chs1
    IN [chunks  |-> record_chunk_file(chs2, line.c, no, line, miss),
        lines_  |-> IF miss THEN b.lines_ \cup {line} ELSE b.lines_,
        content |-> content_add(b.content, line),
        stats_  |-> [b.stats_ EXCEPT
                        !.dedup_bytes = IF miss THEN @ + Len(bytes) + 1 ELSE @,
                        !.dedup_lines = IF miss THEN @ + 1 ELSE @,
                        !.lines = @ + 1]]

\* update_stats, lines 480-510: the loop over the complete lines of the blob
\* from offset p on
RECURSIVE ingest_lines(_, _, _, _)
ingest_lines(b, no, blob, p) ==
    LET f == memchr(blob, p, NL)
    IN IF f = -1 THEN b
       ELSE ingest_lines(ingest_line(b, no, Bytes(blob, p, f - p)), no, blob, f + 1)

\* (mutant of file_map_find: the lookup compares the blob sizes only)
file_map_find_by_size(fs, oid) == {i \in 1..Len(fs) : Len(fs[i].oid) = Len(oid)}

\* file_map_.find(oid): the numbers of the files with this content hash
file_map_find(fs, oid) == {i \in 1..Len(fs) : fs[i].oid = oid}

\* update_stats(ref, path, blob) on the corpus cs = [files_, lines_, chunks,
\* stats_]. The blob's oid is modelled by its content.
update_stats(cs, ref, path, blob) ==
    IF memchr(blob, 0, NUL) # -1 THEN cs
    ELSE
    LET st1 == [cs.stats_ EXCEPT !.bytes = @ + Len(blob), !.files = @ + 1]
        known == file_map_find(cs.files_, blob)
    IN IF known # {}
       THEN LET i == CHOOSE k \in known : TRUE
            IN [cs EXCEPT !.stats_ = st1,
                          !.files_[i].paths = Append(@, GitPath(ref, path))]
       ELSE
       LET no == Len(cs.files_)
           b == ingest_lines([chunks |-> cs.chunks, lines_ |-> cs.lines_,
                              content |-> <<>>,
                              stats_ |-> [st1 EXCEPT !.dedup_files = @ + 1]],
                             no, blob, 0)
           sf == [no |-> no, oid |-> blob,
                  paths |-> <<GitPath(ref, path)>>, content |-> b.content]
       IN [files_ |-> Append(cs.files_, sf),
           lines_ |-> b.lines_,
           chunks |-> [c \in 1..Len(b.chunks) |-> finish_file(b.chunks[c])],
           stats_ |-> b.stats_]

EmptyCorpus == [files_ |-> <<>>, lines_ |-> {}, chunks |-> <<>>, stats_ |-> NewStats]

Corpus == [files_ |-> files_, lines_ |-> lines_, chunks |-> chunks, stats_ |-> stats_]

\* chunk::finalize_files: the ChunkFile sequence in ascending order of left
\* (the order the file-interval finger and the tree are keyed on)
cf_less(a, b) == a.left < b.left
finalize_files(ch) == [ch EXCEPT !.files = SortSeq(@, cf_less)]

\* the bytes of the suffix at offset i up to its '\n'
SufLen(d, i) == memchr(d, i, NL) - i

\* order of the suffix array: bytewise, '\n' ends a suffix and sorts first;
\* equal suffixes stay in offset order
suffix_less(d, i, j) ==
    LET li == SufLen(d, i)
        lj == SufLen(d, j)
        diff == {k \in 0..(Min2(li, lj) - 1) : d[i + k + 1] # d[j + k + 1]}
    IN IF diff = {}
       THEN li < lj \/ (li = lj /\ i < j)
       ELSE LET k == CHOOSE x \in diff : \A y \in diff : x <= y
            IN d[i + k + 1] < d[j + k + 1]

\* chunk::finalize (a): the suffix array, offsets 0..size-1
build_suffixes(d) ==
    SortSeq([k \in 1..Len(d) |-> k - 1], LAMBDA a, b : suffix_less(d, a, b))

\* chunk::finalize (b), (c): a balanced search tree over files[lo..hi], keyed
\* on left; a node is named by the index of its ChunkFile, 0 is no node
RECURSIVE build_tree(_, _, _)
build_tree(fs, lo, hi) ==
    IF lo > hi THEN {}
    ELSE LET mid == (lo + hi) \div 2
             L == build_tree(fs, lo, mid - 1)
             R == build_tree(fs, mid + 1, hi)
             lroot == IF lo <= mid - 1 THEN (lo + mid - 1) \div 2 ELSE 0
             rroot == IF mid + 1 <= hi THEN (mid + 1 + hi) \div 2 ELSE 0
             limit(S, r) == IF r = 0 THEN -1
                            ELSE (CHOOSE n \in S : n.id = r).right_limit
         IN {[id |-> mid, left |-> lroot, right |-> rroot,
              right_limit |-> Max2(fs[mid].right,
                                   Max2(limit(L, lroot), limit(R, rroot)))]}
            \cup L \cup R

\* chunk::finalize
finalize_chunk(ch) ==
    LET c1 == finalize_files(ch)
        n == Len(c1.files)
        nodes == build_tree(c1.files, 1, n)
    IN [c1 EXCEPT !.suffixes = build_suffixes(ch.data),
                  !.cf_root = IF n = 0 THEN 0 ELSE (1 + n) \div 2,
                  !.tree = [k \in 1..n |-> CHOOSE x \in nodes : x.id = k]]

-----------------------------------------------------------------------------
(* Builder actions *)

\* (mutant of walk_ref_asserts: walk_ref does not look at finalized_)
walk_ref_unchecked == TRUE

\* code_searcher::walk_ref, line 370: assert(!finalized_)
walk_ref_asserts == ~finalized_

\* walk_ref -> walk_tree -> update_stats for one blob of the tree
\* (walk_ref's assert(!finalized_), line 370, comes first)
Ingest(in) ==
    /\ ~crashed
    /\ query.state # "running"
    /\ IF walk_ref_asserts
       THEN /\ Len(ingested) < MaxIngest
            /\ LET cs == update_stats(Corpus, in.ref, in.path, in.blob)
               IN /\ files_' = cs.files_
                  /\ lines_' = cs.lines_
                  /\ chunks' = cs.chunks
                  /\ stats_' = cs.stats_
            /\ ingested' = Append(ingested, in)
            /\ UNCHANGED crashed
       ELSE /\ crashed' = TRUE
            /\ UNCHANGED <<files_, lines_, chunks, stats_, ingested>>
    /\ UNCHANGED <<finalized_, FLAGS, searchVars>>

\* code_searcher::finalize(), called by the thread that owns the
\* code_searcher (the one that also calls match_internal)
Finalize ==
    /\ ~crashed
    /\ query.state # "running"
    /\ IF finalized_
       THEN crashed' = TRUE /\ UNCHANGED <<chunks, finalized_>>
       ELSE /\ finalized_' = TRUE
            /\ chunks' = [c \in 1..Len(chunks) |-> finalize_chunk(chunks[c])]
            /\ UNCHANGED crashed
    /\ UNCHANGED <<files_, lines_, stats_, ingested, FLAGS, searchVars>>

\* the flags as gflags defines them (lines 50-53)
DefaultFlags == [index |-> TRUE, search |-> TRUE,
                 max_matches |-> DefaultMaxMatches, timeout |-> DefaultTimeout]

NoLine == [c |-> 0, o |-> 0, n |-> 0]

\* a pool thread that waits for a task
IdleWorker ==
    [pc |-> "idle", chunk |-> 0,
     idx |-> <<>>, i |-> 0, max |-> 0, min |-> 0, inlines |-> FALSE,
     it |-> 1, pos |-> 0, end |-> 0, maxpos |-> 0,
     line |-> NoLine, visits |-> <<>>, fj |-> 0, sf |-> 0,
     group |-> <<>>, out |-> <<>>]

NoQuery == [state |-> "none", pat |-> <<>>, file_pat |-> "", index_ |-> <<>>]

\* no query has been made yet
NoSearch ==
    /\ query = NoQuery
    /\ exit_reason_ = kExitNone
    /\ matches_ = 0
    /\ searcher_files_ = <<>>
    /\ files_density_ = [known |-> FALSE, hits |-> 0, sample |-> 0]
    /\ expired = FALSE
    /\ results = <<>>
    /\ pool = <<>>
    /\ workers = [t \in 1..Threads |-> IdleWorker]
    /\ pending = 0
    /\ matches = 0
    /\ stats = [why |-> kExitNone, matches |-> 0]
    /\ popped = <<>>

InitCorpus ==
    /\ files_ = <<>>
    /\ lines_ = {}
    /\ chunks = <<>>
    /\ stats_ = NewStats
    /\ finalized_ = FALSE
    /\ ingested = <<>>
    /\ crashed = FALSE
    /\ FLAGS = DefaultFlags
    /\ NoSearch

IngestAny == \E in \in Inputs : Ingest(in)

NextIngest == IngestAny \/ Finalize

SpecIngest == InitCorpus /\ [][NextIngest]_vars

-----------------------------------------------------------------------------
(* Queries: the regex, its index key, the path filter *)

\* a pattern is a sequence of byte classes: "a", "ab", "c", "[ab]", "."
PatA == <<{ByteA}>>
PatAB == <<{ByteA}, {ByteB}>>
PatC == <<{ByteC}>>
PatAorB == <<{ByteA, ByteB}>>
PatDot == <<(0..127) \ {NL}>>

Patterns == {PatA, PatAB, PatC, PatAorB, PatDot}

\* file patterns: "" is no file_pat, "src" is ^src/, "test" is ^test/
FilePats == {"", "src", "test"}

\* RE2::Match(str, pos, limit, UNANCHORED, &match, 1): the offset of the
\* leftmost match inside [pos, limit), or -1
re2_Match(data, pos, limit, pat) ==
    ByValue(LAMBDA hits : IF hits = {} THEN -1
                          ELSE CHOOSE m \in hits : \A x \in hits : m <= x,
            {m \in pos..(limit - Len(pat)) :
                \A k \in 1..Len(pat) : data[m + k] \in pat[k]})

\* utf8::is_valid on bytes that are ASCII or 0xff
is_valid(bytes) == \A k \in 1..Len(bytes) : bytes[k] < 128

SetMin(S) == CHOOSE x \in S : \A y \in S : x <= y
SetMax(S) == CHOOSE x \in S : \A y \in S : x >= y

\* indexRE(pat): the chain of byte ranges the pattern's leading classes give;
\* <<>> is the empty key, which any suffix matches
RECURSIVE indexRE(_)
indexRE(pat) ==
    IF pat = <<>> THEN <<>>
    ELSE LET S == Head(pat)
         IN IF S = SetMin(S)..SetMax(S) /\ Cardinality(S) <= MaxKeyWidth
            THEN <<[lo |-> SetMin(S), hi |-> SetMax(S)]>> \o indexRE(Tail(pat))
            ELSE <<>>

-----------------------------------------------------------------------------
(* searcher: the exit check and the path filter *)

\* (mutant of exit_early: the limit stops the search but is not recorded)
exit_early_unrecorded(er, m) ==
    IF er # kExitNone THEN [ret |-> TRUE, reason |-> er]
    ELSE IF m >= FLAGS.max_matches THEN [ret |-> TRUE, reason |-> er]
    ELSE IF expired THEN [ret |-> TRUE, reason |-> kExitTimeout]
    ELSE [ret |-> FALSE, reason |-> er]

\* searcher::exit_early() with exit_reason_ = er and matches_ = m
exit_early(er, m) ==
    IF er # kExitNone THEN [ret |-> TRUE, reason |-> er]
    ELSE IF m >= FLAGS.max_matches THEN [ret |-> TRUE, reason |-> kExitMatchLimit]
    ELSE IF expired THEN [ret |-> TRUE, reason |-> kExitTimeout]
    ELSE [ret |-> FALSE, reason |-> er]

\* (mutant of accept_path: every path passes)
accept_any_path(path) == TRUE

\* searcher::accept(const git_path&)
accept_path(path) == query.file_pat = "" \/ path.path[1] = query.file_pat

\* searcher::accept(search_file*): the answer and the cache afterwards
accept_file(cache, no) ==
    IF query.file_pat = "" THEN [ret |-> TRUE, cache |-> cache]
    ELSE IF cache[no] = kUnknown
    THEN LET match == \E k \in 1..Len(files_[no + 1].paths) :
                          accept_path(files_[no + 1].paths[k])
         IN [ret |-> match,
             cache |-> [cache EXCEPT ![no] = IF match THEN 1 ELSE 0]]
    ELSE [ret |-> cache[no] # 0, cache |-> cache]

\* searcher::accept(const list<search_file*>&)
RECURSIVE accept_list(_, _)
accept_list(cache, sfs) ==
    IF sfs = <<>> THEN [ret |-> FALSE, cache |-> cache]
    ELSE ByValue(LAMBDA a : IF a.ret THEN a ELSE accept_list(a.cache, Tail(sfs)),
                 accept_file(cache, Head(sfs)))

\* (mutant of line_start: every line starts where the chunk starts)
line_start_of_chunk(data, pos) == 0

\* searcher::line_start
line_start(data, pos) ==
    LET start == memrchr(data, NL, pos)
    IN IF start = -1 THEN 0 ELSE start

\* searcher::line_end
line_end(data, pos) ==
    LET end == memchr(data, pos, NL)
    IN IF end = -1 THEN Len(data) ELSE end

\* searcher::find_line(chunk, match): the line around the match [mo, mo + mn)
find_line(data, mo, mn) ==
    LET s == memrchr(data, NL, mo)
        start == IF s = -1 THEN 0 ELSE s + 1
        e == memchr(data, mo + mn, NL)
        end == IF e = -1 THEN Len(data) ELSE e
    IN [o |-> start, n |-> end - start]

-----------------------------------------------------------------------------
(* filtered_search: the walk over the suffix array *)

\* (mutant of IndexesSize: the buffer has an entry for every byte of a chunk)
IndexesSizeWholeChunk == ChunkCapacity

\* the per-thread candidate buffer holds kChunkSize / kMinFilterRatio entries
IndexesSize == ChunkCapacity \div kMinFilterRatio

\* lt_index::cmp
lt_cmp(data, lhs, idx, rhs) ==
    LET lc == data[lhs + idx + 1]
    IN IF lc = NL THEN -1 ELSE lc - rhs

\* std::lower_bound(first, first + len, value, lt) over suffixes; positions
\* are 0-based offsets into the suffix array
RECURSIVE lower_bound_n(_, _, _, _, _)
lower_bound_n(ch, first, len, value, idx) ==
    IF len <= 0 THEN first
    ELSE LET half == len \div 2
         IN ByValue(LAMBDA mid :
                        IF lt_cmp(ch.data, ch.suffixes[mid + 1], idx, value) < 0
                        THEN lower_bound_n(ch, mid + 1, len - half - 1, value, idx)
                        ELSE lower_bound_n(ch, first, half, value, idx),
                    first + half)

lower_bound(ch, first, last, value, idx) ==
    lower_bound_n(ch, first, last - first, value, idx)

\* lines 603-610: the frames pushed for the bytes c..hi of one range
RECURSIVE split_bytes(_, _, _, _, _, _)
split_bytes(ch, l, right, c, hi, depth) ==
    IF c > hi THEN <<>>
    ELSE ByValue(LAMBDA r :
                     (IF r # l
                      THEN <<[left |-> l, right |-> r, depth |-> depth + 1]>>
                      ELSE <<>>)
                     \o split_bytes(ch, r, right, (c + 1) % 256, hi, depth),
                 lower_bound(ch, l, right, (c + 1) % 256, depth))

\* lines 592-601: the asserts on a non-empty slice [l, right) of a frame
walk_asserts(ch, st, rg, l, right) ==
    LET d == ch.data
        sa == ch.suffixes
    IN /\ st.depth # 0 =>
             d[sa[l + 1] + st.depth] = d[sa[right] + st.depth]
       /\ \/ l = st.left
          \/ d[sa[l] + st.depth + 1] = NL
          \/ d[sa[l] + st.depth + 1] < rg.lo
       /\ d[sa[l + 1] + st.depth + 1] >= rg.lo
       /\ right = st.right \/ d[sa[right + 1] + st.depth + 1] > rg.hi

\* lines 568-612: the walk with the given stack; count and the candidates
\* copied so far
RECURSIVE walk(_, _, _, _, _)
RECURSIVE walk_on(_, _, _, _, _)
RECURSIVE walk_split(_, _, _, _, _, _, _, _)
RECURSIVE walk_slice(_, _, _, _, _, _, _)
walk(ch, key, stack, cnt, out) ==
    IF stack = <<>> THEN [count |-> cnt, indexes |-> out, ok |-> TRUE]
    ELSE
    LET st == stack[Len(stack)]
        rest == SubSeq(stack, 1, Len(stack) - 1)
    IN IF st.depth >= Len(key) \/ st.right - st.left <= kSmallSlice
       THEN IF cnt + (st.right - st.left) > IndexesSize
            THEN [count |-> IndexesSize + 1, indexes |-> out, ok |-> TRUE]
            ELSE walk_on(ch, key, rest, cnt + (st.right - st.left),
                         out \o SubSeq(ch.suffixes, st.left + 1, st.right))
       ELSE walk_slice(ch, key, st, rest, cnt, out,
                       lower_bound(ch, st.left, st.right, key[st.depth + 1].lo,
                                   st.depth))

\* lines 586-588: the frame st, whose slice starts at l
walk_slice(ch, key, st, rest, cnt, out, l) ==
    ByValue(LAMBDA x : walk_split(ch, key, st, rest, cnt, out, x.l, x.right),
            [l |-> l,
             right |-> lower_bound(ch, l, st.right,
                                   (key[st.depth + 1].hi + 1) % 256, st.depth)])

\* lines 589-611: the frame st, whose slice is [l, right)
walk_split(ch, key, st, rest, cnt, out, l, right) ==
    LET rg == key[st.depth + 1]
    IN IF l = right THEN walk_on(ch, key, rest, cnt, out)
       ELSE IF ~walk_asserts(ch, st, rg, l, right)
       THEN [count |-> cnt, indexes |-> out, ok |-> FALSE]
       ELSE walk_on(ch, key,
                    rest \o split_bytes(ch, l, right, rg.lo, rg.hi, st.depth),
                    cnt, out)

\* the loop of line 568 goes round with what is left on the stack
walk_on(ch, key, stack, cnt, out) ==
    ByValue(LAMBDA x : walk(ch, key, x.stack, x.cnt, x.out),
            [stack |-> stack, cnt |-> cnt, out |-> out])

\* filtered_search up to its call of search_lines
filtered_search(ch, key) ==
    walk(ch, key, <<[left |-> 0, right |-> Len(ch.data), depth |-> 0]>>, 0, <<>>)

\* lsd_radix_sort
radix_sort(idx) == SortSeq(idx, <)

\* lines 585-588: the sub-slice [l, right) of frame st for the range rg
range_slice(ch, st, rg) ==
    ByValue(LAMBDA l :
                [l |-> l,
                 right |-> lower_bound(ch, l, st.right, (rg.hi + 1) % 256,
                                       st.depth)],
            lower_bound(ch, st.left, st.right, rg.lo, st.depth))

\* line 603: the loop's test ch <= hi, which no unsigned char fails when
\* hi is 255
byte_loop_ends(hi) == hi < 255

\* lines 585-610 for one range of the key: the frames pushed; ok is FALSE
\* when an assert fails, ends is FALSE when the per-byte loop is entered
\* and cannot be left
range_frames(ch, st, rg) ==
    ByValue(LAMBDA x :
                IF x.l = x.right
                THEN [frames |-> <<>>, ok |-> TRUE, ends |-> TRUE]
                ELSE IF ~walk_asserts(ch, st, rg, x.l, x.right)
                THEN [frames |-> <<>>, ok |-> FALSE, ends |-> TRUE]
                ELSE IF ~byte_loop_ends(rg.hi)
                THEN [frames |-> <<>>, ok |-> TRUE, ends |-> FALSE]
                ELSE [frames |-> split_bytes(ch, x.l, x.right, rg.lo, rg.hi,
                                             st.depth),
                      ok |-> TRUE, ends |-> TRUE],
            range_slice(ch, st, rg))

\* lines 568-611: one turn of the loop for the walk state w = [stack, count,
\* indexes, ...]; frame and pushed record the frame that was split and the
\* frames pushed for it
walk_step(ch, key, w) ==
    LET st == w.stack[Len(w.stack)]
        rest == SubSeq(w.stack, 1, Len(w.stack) - 1)
    IN IF st.depth >= Len(key) \/ st.right - st.left <= kSmallSlice
       THEN IF w.count + (st.right - st.left) > IndexesSize
            THEN [w EXCEPT !.stack = <<>>, !.count = IndexesSize + 1,
                           !.split = FALSE, !.over = TRUE]
            ELSE [w EXCEPT !.stack = rest,
                           !.count = @ + (st.right - st.left),
                           !.indexes = @ \o SubSeq(ch.suffixes, st.left + 1,
                                                   st.right),
                           !.split = FALSE]
       ELSE ByValue(LAMBDA R :
                        IF ~R.ok THEN [w EXCEPT !.pc = "abort"]
                        ELSE IF ~R.ends THEN [w EXCEPT !.pc = "spin"]
                        ELSE [w EXCEPT !.stack = rest \o R.frames,
                                       !.split = TRUE, !.frame = st,
                                       !.pushed = R.frames],
                    range_frames(ch, st, key[st.depth + 1]))

-----------------------------------------------------------------------------
(* next_range: the file-interval finger *)

\* (mutant of nr_skip: the finger runs to the end of the sequence)
nr_skip_to_end(fs, it, cache, pos, maxpos) ==
    [it |-> Len(fs) + 1, cache |-> cache]

\* lines 690-693: skip the ChunkFiles that end before pos or are not accepted
RECURSIVE nr_skip(_, _, _, _, _)
nr_skip(fs, it, cache, pos, maxpos) ==
    IF it > Len(fs) THEN [it |-> it, cache |-> cache]
    ELSE ByValue(LAMBDA a :
                     IF (fs[it].right < pos \/ ~a.ret) /\ fs[it].left < maxpos
                     THEN nr_skip(fs, it + 1, a.cache, pos, maxpos)
                     ELSE [it |-> it, cache |-> a.cache],
                 IF fs[it].right < pos THEN [ret |-> FALSE, cache |-> cache]
                 ELSE accept_list(cache, fs[it].files))

\* lines 712-713: the ChunkFile cf that reaches endpos and is accepted
\* extends it
nr_take(cf, cache, endpos) ==
    IF cf.right >= endpos
    THEN ByValue(LAMBDA a : [ret |-> a.ret, cache |-> a.cache,
                             endpos |-> IF a.ret THEN Max2(endpos, cf.right)
                                        ELSE endpos],
                 accept_list(cache, cf.files))
    ELSE [ret |-> FALSE, cache |-> cache, endpos |-> endpos]

\* lines 709-721: extend endpos over the accepted ChunkFiles that follow
RECURSIVE nr_scan(_, _, _, _, _)
nr_scan(fs, it, cache, endpos, maxpos) ==
    IF fs[it].left >= endpos + kMinSkip
    THEN [it |-> it, cache |-> cache, endpos |-> endpos]
    ELSE ByValue(LAMBDA a :
                     IF a.ret /\ a.endpos >= maxpos
                     THEN [it |-> it, cache |-> a.cache, endpos |-> a.endpos]
                     ELSE IF it + 1 <= Len(fs) /\ fs[it + 1].left < maxpos
                     THEN nr_scan(fs, it + 1, a.cache, a.endpos, maxpos)
                     ELSE [it |-> it + 1, cache |-> a.cache, endpos |-> a.endpos],
                 nr_take(fs[it], cache, endpos))

\* searcher::next_range(finger, pos, endpos, maxpos)
next_range(fs, it, cache, pos, endpos, maxpos) ==
    IF query.file_pat = "" \/ ~FLAGS.index
    THEN [it |-> it, cache |-> cache, pos |-> pos, endpos |-> endpos]
    ELSE ByValue(LAMBDA s :
                     IF s.it > Len(fs) \/ fs[s.it].left >= maxpos
                     THEN [it |-> s.it, cache |-> s.cache,
                           pos |-> maxpos, endpos |-> maxpos]
                     ELSE ByValue(LAMBDA d :
                                      [it |-> d.it, cache |-> d.cache,
                                       pos |-> Max2(pos, fs[s.it].left),
                                       endpos |-> Min2(d.endpos, maxpos)],
                                  nr_scan(fs, s.it, s.cache, fs[s.it].right,
                                          maxpos)),
                 nr_skip(fs, it, cache, pos, maxpos))

-----------------------------------------------------------------------------
(* find_match, try_match, finish_group *)

\* find_match_brute, lines 786-788: the ChunkFiles around off, in sequence
find_match_brute(ch, off) ==
    SelectSeq([k \in 1..Len(ch.files) |-> k],
              LAMBDA k : off >= ch.files[k].left /\ off <= ch.files[k].right)

\* (mutant of tree_walk: only the root of the tree is looked at)
tree_walk_root_only(ch, stack, loff, acc) ==
    LET k == stack[1].node
    IN IF loff >= ch.files[k].left /\ loff <= ch.files[k].right
       THEN <<k>> ELSE <<>>

\* find_match, lines 849-882 without the visits' bodies: the nodes visited,
\* in order
RECURSIVE tree_walk(_, _, _, _)
tree_walk(ch, stack, loff, acc) ==
    IF stack = <<>> THEN acc
    ELSE
    LET f == stack[Len(stack)]
        rest == SubSeq(stack, 1, Len(stack) - 1)
        n == ch.tree[f.node]
        cf == ch.files[f.node]
    IN IF f.visit
       THEN ByValue(LAMBDA st : tree_walk(ch, st, loff, Append(acc, f.node)), rest)
       ELSE IF loff > n.right_limit
       THEN ByValue(LAMBDA st : tree_walk(ch, st, loff, acc), rest)
       ELSE LET s1 == IF loff >= cf.left /\ n.right # 0
                      THEN Append(rest, [node |-> n.right, visit |-> FALSE])
                      ELSE rest
                s2 == IF loff >= cf.left /\ loff <= cf.right
                      THEN Append(s1, [node |-> f.node, visit |-> TRUE])
                      ELSE s1
                s3 == IF n.left # 0
                      THEN Append(s2, [node |-> n.left, visit |-> FALSE])
                      ELSE s2
            IN ByValue(LAMBDA st : tree_walk(ch, st, loff, acc), s3)

\* find_match: the ChunkFiles whose files are tried for the line at loff
find_match(ch, loff) ==
    IF ~FLAGS.index THEN find_match_brute(ch, loff)
    ELSE tree_walk(ch, <<[node |-> ch.cf_root, visit |-> FALSE]>>, loff, <<>>)

\* try_match, lines 892-903: the first segment around line.data() and the
\* line number counted on the way
RECURSIVE find_segment(_, _, _, _)
find_segment(content, k, line, lno) ==
    IF k > Len(content) THEN [found |-> FALSE, lno |-> lno, it |-> k]
    ELSE LET seg == content[k]
             d == chunks[seg.c].data
         IN IF seg.c = line.c /\ line.o >= seg.o /\ line.o <= seg.o + seg.n
            THEN [found |-> TRUE, lno |-> lno + count(d, seg.o, line.o, NL),
                  it |-> k]
            ELSE find_segment(content, k + 1, line,
                              lno + count(d, seg.o, seg.o + seg.n, NL) + 1)

\* find_line(chunk, match), lines 258-260: the asserts, for the segment seg
\* as chunk and an empty match at offset p
find_line_asserts(seg, p) == p >= seg.o /\ p <= seg.o + seg.n

\* find_line(chunk, match), lines 261-272, for the segment seg as chunk and
\* an empty match at offset p
find_line_in(seg, p) ==
    LET d == chunks[seg.c].data
        before == {x \in seg.o..(p - 1) : d[x + 1] = NL}
        after == {x \in p..(seg.o + seg.n - 1) : d[x + 1] = NL}
        start == IF before = {} THEN seg.o ELSE SetMax(before) + 1
        end == IF after = {} THEN seg.o + seg.n ELSE SetMin(after)
    IN StringPiece(seg.c, start, end - start)

\* try_match, lines 917-926: the loop that collects context_before, from its
\* i-th turn on, with the iterator at content[it] and the last line l
RECURSIVE context_before(_, _, _, _, _)
context_before(content, it, l, i, acc) ==
    LET at_start == l.c = content[it].c /\ l.o = content[it].o
        it1 == IF at_start THEN it - 1 ELSE it
        p == IF at_start THEN content[it - 1].o + content[it - 1].n ELSE l.o - 1
    IN IF i >= kContextLines \/ (at_start /\ it = 1)
       THEN [lines |-> acc, ok |-> TRUE]
       ELSE IF ~find_line_asserts(content[it1], p)
       THEN [lines |-> acc, ok |-> FALSE]
       ELSE ByValue(LAMBDA x : context_before(content, it1, x, i + 1, Append(acc, x)),
                    find_line_in(content[it1], p))

\* try_match, lines 930-938: the loop that collects context_after
RECURSIVE context_after(_, _, _, _, _)
context_after(content, it, l, i, acc) ==
    LET at_end == l.c = content[it].c /\ l.o + l.n = content[it].o + content[it].n
        it1 == IF at_end THEN it + 1 ELSE it
        p == IF at_end THEN content[it + 1].o ELSE l.o + l.n + 1
    IN IF i >= kContextLines \/ (at_end /\ it = Len(content))
       THEN [lines |-> acc, ok |-> TRUE]
       ELSE IF ~find_line_asserts(content[it1], p)
       THEN [lines |-> acc, ok |-> FALSE]
       ELSE ByValue(LAMBDA x : context_after(content, it1, x, i + 1, Append(acc, x)),
                    find_line_in(content[it1], p))

\* std::map<string, ...> keeps its keys in string order
PathNames == <<PathSrc, PathTest>>
PathRank(p) == CHOOSE k \in 1..Len(PathNames) : PathNames[k] = p

\* (mutant of group_insert: the new entry is not kept)
group_insert_dropped(group, path, ctx) == group

\* group->matches[path] = <<ctx>> for a key that is not in the map
group_insert(group, path, ctx) ==
    LET before == SelectSeq(group, LAMBDA e : PathRank(e.path) < PathRank(path))
        after == SelectSeq(group, LAMBDA e : PathRank(e.path) > PathRank(path))
    IN before \o <<[path |-> path, context |-> <<ctx>>]>> \o after

\* try_match, lines 940-952: the loop over sf->paths from the k-th on
RECURSIVE add_paths(_, _, _, _, _)
add_paths(group, m, sf, k, ctx) ==
    IF k > Len(sf.paths) THEN [group |-> group, matches_ |-> m, ok |-> TRUE]
    ELSE
    LET p == sf.paths[k]
        at == {g \in 1..Len(group) : group[g].path = p.path}
    IN IF ~accept_path(p) THEN add_paths(group, m, sf, k + 1, ctx)
       ELSE IF at = {}
       THEN add_paths(group_insert(group, p.path, [ctx EXCEPT !.paths = <<p>>]),
                      m + 1, sf, k + 1, ctx)
       ELSE LET g == CHOOSE x \in at : TRUE
                last == Len(group[g].context)
            IN IF group[g].context[last].file # sf.no
               THEN add_paths([group EXCEPT ![g].context =
                                   Append(@, [ctx EXCEPT !.paths = <<p>>])],
                              m, sf, k + 1, ctx)
               ELSE add_paths([group EXCEPT ![g].context[last].paths = Append(@, p)],
                              m, sf, k + 1, ctx)

\* searcher::try_match(group, line, match, sf): the group and matches_ after
try_match(group, m, line, no) ==
    LET sf == files_[no + 1]
    IN ByValue(LAMBDA seg :
           IF ~seg.found THEN [group |-> group, matches_ |-> m, ok |-> TRUE]
           ELSE ByValue(LAMBDA c :
                    IF ~c.cb.ok \/ ~c.ca.ok
                    THEN [group |-> group, matches_ |-> m, ok |-> FALSE]
                    ELSE ByValue(LAMBDA ctx : add_paths(group, m, sf, 1, ctx),
                                 [file |-> no, lno |-> seg.lno, paths |-> <<>>,
                                  context_before |-> c.cb.lines,
                                  context_after |-> c.ca.lines]),
                    [cb |-> context_before(sf.content, seg.it, line, 0, <<>>),
                     ca |-> context_after(sf.content, seg.it, line, 0, <<>>)]),
           find_segment(sf.content, 1, line, 1))

\* the sentinel search_one pushes for its chunk
Sentinel(c) == [null |-> TRUE, chunk |-> c, line |-> NoLine, context |-> <<>>]

\* (mutant of finish_group: only the first entry of the map is published)
finish_first_group(group, line) ==
    [k \in 1..Min2(1, Len(group)) |->
        [null |-> FALSE, chunk |-> line.c, line |-> line,
         context |-> group[k].context]]

\* searcher::finish_group: the match_results to push, in map order
finish_group(group, line) ==
    [k \in 1..Len(group) |->
        [null |-> FALSE, chunk |-> line.c, line |-> line,
         context |-> group[k].context]]

-----------------------------------------------------------------------------
(* The worker's program, cut into steps at its reads and writes of shared
   state. A step takes the worker's record w, exit_reason_ (er), matches_
   (m) and the accept cache, and gives them back. *)

Ret(w, er, m, cache, ok) ==
    [w |-> w, exit_reason_ |-> er, matches_ |-> m, files_ |-> cache, ok |-> ok]

\* the worker's program goes on with F from the state (w, er, m, cache)
Then(F(_, _, _, _), w, er, m, cache) ==
    ByValue(LAMBDA s : F(s.w, s.exit_reason_, s.matches_, s.files_),
            Ret(w, er, m, cache, TRUE))

\* (mutant of to_sentinel: the thread waits again without the push of
\* line 1020)
to_waiting(w) == IdleWorker

\* search_one, line 1020, is next: operator() has returned
to_sentinel(w) == [IdleWorker EXCEPT !.pc = "sentinel", !.chunk = w.chunk]

\* full_search(finger, chunk, minpos, maxpos) is entered
enter_full_search(w, minpos, maxpos) ==
    [w EXCEPT !.pc = "scan", !.pos = minpos, !.end = minpos, !.maxpos = maxpos]

\* full_search has returned: to search_lines' loop (lines 665-668 and the
\* i++), or out of operator()
leave_full_search(w) ==
    IF ~w.inlines THEN to_sentinel(w)
    ELSE LET d == chunks[w.chunk].data
             more == w.i # Len(w.idx)
         IN [w EXCEPT !.pc = "lines",
                      !.max = IF more THEN w.idx[w.i + 1] ELSE @,
                      !.min = IF more THEN line_start(d, w.idx[w.i + 1]) ELSE @,
                      !.i = @ + 1]

\* (mutant of range_end: the range stops at the candidate itself)
range_end_at_candidate(data, max) == max

\* search_lines, line 662: the end of the range that holds the candidates
range_end(data, max) == line_end(data, max)

\* find_match's loops from the worker's place (visits, fj) on: up to the
\* next try_match, or through finish_group
RECURSIVE resolve(_, _, _, _)
resolve(w, er, m, cache) ==
    IF w.visits = <<>> \/ (w.fj = 0 /\ FLAGS.index /\ er # kExitNone)
    THEN LET out == finish_group(w.group, w.line)
         IN Ret([w EXCEPT !.pc = IF out = <<>> THEN "scan" ELSE "publish",
                          !.out = out, !.group = <<>>, !.visits = <<>>,
                          !.fj = 0, !.sf = 0, !.line = NoLine],
                er, m, cache, TRUE)
    ELSE
    LET cf == chunks[w.chunk].files[Head(w.visits)]
        j == IF w.fj = 0 THEN 1 ELSE w.fj
    IN IF j > Len(cf.files)
       THEN Then(resolve, [w EXCEPT !.visits = Tail(@), !.fj = 0], er, m, cache)
       ELSE
       LET a == accept_file(cache, cf.files[j])
           e == exit_early(er, m)
       IN IF ~a.ret THEN Then(resolve, [w EXCEPT !.fj = j + 1], er, m, a.cache)
          ELSE IF e.ret
          THEN Then(resolve, [w EXCEPT !.visits = Tail(@), !.fj = 0],
                    e.reason, m, a.cache)
          ELSE Ret([w EXCEPT !.pc = "try", !.fj = j, !.sf = cf.files[j]],
                   er, m, a.cache, TRUE)

\* (mutant of scan_line: the line goes to find_match whatever its bytes)
scan_line_unfiltered(w, er, m, cache, ln) ==
    LET ch == chunks[w.chunk]
        new_pos == ln.o + ln.n + 1
    IN IF ~(new_pos > w.pos) THEN Ret(w, er, m, cache, FALSE)
       ELSE Then(resolve, [w EXCEPT !.pos = new_pos,
                                   !.line = StringPiece(w.chunk, ln.o, ln.n),
                                   !.visits = find_match(ch, ln.o),
                                   !.fj = 0, !.group = <<>>],
                 er, m, cache)

\* full_search, lines 754-760: the match lies in the line ln
scan_line(w, er, m, cache, ln) ==
    LET ch == chunks[w.chunk]
        new_pos == ln.o + ln.n + 1
    IN IF ~(new_pos > w.pos) THEN Ret(w, er, m, cache, FALSE)
       ELSE IF ~is_valid(Bytes(ch.data, ln.o, ln.n))
       THEN Ret([w EXCEPT !.pos = new_pos], er, m, cache, TRUE)
       ELSE Then(resolve, [w EXCEPT !.pos = new_pos,
                                   !.line = StringPiece(w.chunk, ln.o, ln.n),
                                   !.visits = find_match(ch, ln.o),
                                   !.fj = 0, !.group = <<>>],
                 er, m, cache)

\* full_search, lines 749-753: the regex runs over [pos, limit)
scan_match(w, er, m, cache, limit) ==
    ByValue(LAMBDA mo :
                IF mo = -1 THEN Ret([w EXCEPT !.pos = limit + 1], er, m, cache, TRUE)
                ELSE ByValue(LAMBDA ln : scan_line(w, er, m, cache, ln),
                             find_line(chunks[w.chunk].data, mo, Len(query.pat))),
            re2_Match(chunks[w.chunk].data, w.pos, limit, query.pat))

\* full_search, lines 736-748: the range [pos, end) is known
scan_range(w, er, m, cache) ==
    IF w.pos > w.end THEN Ret(w, er, m, cache, FALSE)
    ELSE IF w.pos >= w.maxpos THEN Ret(leave_full_search(w), er, m, cache, TRUE)
    ELSE ByValue(LAMBDA limit : scan_match(w, er, m, cache, limit),
                 IF w.end - w.pos > kMaxScan
                 THEN line_end(chunks[w.chunk].data, w.pos + kMaxScan)
                 ELSE w.end)

\* full_search, lines 733-735: the finger gives the next range
scan_next_range(w, er, m, nr) ==
    Then(scan_range, [w EXCEPT !.it = nr.it, !.pos = nr.pos, !.end = nr.endpos],
         er, m, nr.cache)

\* (mutant of scan_step: the loop of line 732 does not call exit_early)
scan_step_unchecked(w, er, m, cache) ==
    IF ~(w.pos < w.maxpos) THEN Ret(leave_full_search(w), er, m, cache, TRUE)
    ELSE IF w.pos >= w.end
    THEN ByValue(LAMBDA nr : scan_next_range(w, er, m, nr),
                 next_range(chunks[w.chunk].files, w.it, cache,
                            w.pos, w.maxpos, w.maxpos))
    ELSE scan_range(w, er, m, cache)

\* one turn of full_search's loop, lines 732-761, up to the first try_match
scan_step(w, er, m, cache) ==
    IF ~(w.pos < w.maxpos) THEN Ret(leave_full_search(w), er, m, cache, TRUE)
    ELSE IF exit_early(er, m).ret
    THEN Ret(leave_full_search(w), exit_early(er, m).reason, m, cache, TRUE)
    ELSE IF w.pos >= w.end
    THEN ByValue(LAMBDA nr : scan_next_range(w, er, m, nr),
                 next_range(chunks[w.chunk].files, w.it, cache,
                            w.pos, w.maxpos, w.maxpos))
    ELSE scan_range(w, er, m, cache)

\* try_match for the file the worker stopped at, and find_match's loops on
\* from there
try_step(w, er, m, cache) ==
    ByValue(LAMBDA t :
                IF ~t.ok THEN Ret(w, er, m, cache, FALSE)
                ELSE Then(resolve, [w EXCEPT !.group = t.group, !.fj = @ + 1,
                                             !.sf = 0],
                          er, t.matches_, cache),
            try_match(w.group, m, w.line, w.sf))

\* one turn of search_lines' loop, lines 653-663
lines_step(w, er, m, cache) ==
    LET d == chunks[w.chunk].data
        cnt == Len(w.idx)
        e == exit_early(er, m)
    IN IF w.i > cnt THEN Ret(to_sentinel(w), er, m, cache, TRUE)
       ELSE IF e.ret THEN Ret(to_sentinel(w), e.reason, m, cache, TRUE)
       ELSE IF w.i # cnt /\ w.idx[w.i + 1] < w.max
       THEN Ret([w EXCEPT !.i = @ + 1], er, m, cache, TRUE)
       ELSE IF w.i # cnt /\ w.idx[w.i + 1] < w.max + kMinSkip
       THEN Ret([w EXCEPT !.max = w.idx[w.i + 1], !.i = @ + 1], er, m, cache, TRUE)
       ELSE Ret(enter_full_search(w, w.min, range_end(d, w.max)), er, m, cache, TRUE)

\* searcher::operator()(chunk) up to the first loop, once the index walk
\* gave [count, indexes] and files_density() said whether the filter is too
\* sparse (asked only where search_lines asks)
start_search(w, er, walked, sparse) ==
    LET ch == chunks[w.chunk]
        full == enter_full_search([w EXCEPT !.inlines = FALSE], 0, Len(ch.data) - 1)
        idx == radix_sort(walked.indexes)
    IN IF er # kExitNone THEN to_sentinel(w)
       ELSE IF ~(FLAGS.index /\ query.index_ # <<>>) THEN full
       ELSE IF walked.count = 0 THEN to_sentinel(w)
       ELSE IF walked.count * kMinFilterRatio > Len(ch.data) THEN full
       ELSE IF sparse THEN full
       ELSE [w EXCEPT !.pc = "lines", !.inlines = TRUE, !.idx = idx, !.i = 0,
                      !.max = idx[1], !.min = line_start(ch.data, idx[1])]

\* does search_lines reach its call of files_density()?
asks_density(er, walked, size) ==
    /\ er = kExitNone
    /\ FLAGS.index /\ query.index_ # <<>>
    /\ walked.count # 0
    /\ ~(walked.count * kMinFilterRatio > size)
    /\ query.file_pat # ""

\* files_density(): the draws of rand() are a function from file numbers to
\* how often each was drawn
Draws(n, sample) ==
    {f \in [0..(n - 1) -> 0..sample] :
        LET S[k \in 0..n] == IF k = 0 THEN 0 ELSE S[k - 1] + f[k - 1]
        IN S[n] = sample}

\* files_density(), lines 201-207: the cache and density after the draws
RECURSIVE sample_files(_, _, _, _)
sample_files(cache, draws, k, hits) ==
    IF k >= Len(files_) THEN [cache |-> cache, hits |-> hits]
    ELSE IF draws[k] = 0 THEN sample_files(cache, draws, k + 1, hits)
    ELSE ByValue(LAMBDA a : sample_files(a.cache, draws, k + 1,
                                         IF a.ret THEN hits + draws[k] ELSE hits),
                 accept_file(cache, k))

\* search_lines, line 638: double(count * 30) / chunk->size > files_density()
too_sparse(cnt, size, density) ==
    cnt * kDensityScale * density.sample > density.hits * size

-----------------------------------------------------------------------------
(* Search actions *)

\* match_internal(pat, file_pat, cb, stats) up to its consumer loop: the
\* searcher is constructed and one task per chunk is queued
StartQuery(pat, file_pat) ==
    /\ ~crashed
    /\ query.state = "none"
    /\ IF ~finalized_
       THEN /\ crashed' = TRUE
            /\ UNCHANGED searchVars
       ELSE /\ query' = [state |-> IF FLAGS.search THEN "running" ELSE "done",
                         pat |-> pat, file_pat |-> file_pat,
                         index_ |-> indexRE(pat)]
            /\ exit_reason_' = kExitNone
            /\ matches_' = 0
            /\ searcher_files_' = [k \in 0..(Len(files_) - 1) |-> kUnknown]
            /\ files_density_' = [known |-> FALSE, hits |-> 0, sample |-> 0]
            /\ expired' = FALSE
            /\ results' = <<>>
            /\ pool' = IF FLAGS.search THEN [c \in 1..Len(chunks) |-> c] ELSE <<>>
            /\ pending' = Len(chunks)
            /\ matches' = 0
            /\ stats' = [why |-> kExitNone, matches |-> 0]
            /\ popped' = <<>>
            /\ UNCHANGED <<workers, crashed>>
    /\ UNCHANGED <<files_, lines_, chunks, stats_, finalized_, ingested, FLAGS>>

\* the clock passes searcher::limit_ (set only when --timeout is positive)
Deadline ==
    /\ ~crashed
    /\ query.state = "running"
    /\ FLAGS.timeout > 0
    /\ ~expired
    /\ expired' = TRUE
    /\ UNCHANGED <<corpusVars, FLAGS, query, exit_reason_, matches_,
                   searcher_files_, files_density_, results, pool, workers,
                   pending, matches, stats, popped>>

\* searcher::operator()(chunk), lines 518-523: the index walk, where one is
\* made
index_walk(ch) ==
    IF exit_reason_ = kExitNone /\ FLAGS.index /\ query.index_ # <<>>
    THEN filtered_search(ch, query.index_)
    ELSE [count |-> 0, indexes |-> <<>>, ok |-> TRUE]

\* what a step of worker t leaves behind; a failed assert ends the process
Apply(t, R) ==
    /\ IF R.ok
       THEN /\ workers' = [workers EXCEPT ![t] = R.w]
            /\ exit_reason_' = R.exit_reason_
            /\ matches_' = R.matches_
            /\ searcher_files_' = R.files_
            /\ UNCHANGED crashed
       ELSE /\ crashed' = TRUE
            /\ UNCHANGED <<workers, exit_reason_, matches_, searcher_files_>>
    /\ UNCHANGED <<files_, lines_, chunks, stats_, finalized_, ingested, FLAGS,
                   query, expired, results, pending, matches, stats, popped>>

\* a pool thread takes a task: search_one -> searcher::operator()(chunk),
\* through filtered_search and the head of search_lines. The waiting threads
\* are interchangeable: the task goes to the first of them.
TaskStart(t) ==
    /\ ~crashed
    /\ query.state = "running"
    /\ workers[t].pc = "idle"
    /\ \A u \in 1..(t - 1) : workers[u].pc # "idle"
    /\ pool # <<>>
    /\ pool' = Tail(pool)
    /\ \E walked \in {index_walk(chunks[Head(pool)])} :
       LET ch == chunks[Head(pool)]
           w == [IdleWorker EXCEPT !.chunk = Head(pool)]
           n == Len(files_)
       IN IF ~walked.ok
          THEN Apply(t, Ret(w, exit_reason_, matches_, searcher_files_, FALSE))
               /\ UNCHANGED files_density_
          ELSE IF ~asks_density(exit_reason_, walked, Len(ch.data))
          THEN Apply(t, Ret(start_search(w, exit_reason_, walked, FALSE),
                            exit_reason_, matches_, searcher_files_, TRUE))
               /\ UNCHANGED files_density_
          ELSE IF files_density_.known
          THEN Apply(t, Ret(start_search(w, exit_reason_, walked,
                                         too_sparse(walked.count, Len(ch.data),
                                                    files_density_)),
                            exit_reason_, matches_, searcher_files_, TRUE))
               /\ UNCHANGED files_density_
          ELSE \E draws \in Draws(n, Min2(kDensitySample, n)) :
               \E s \in {sample_files(searcher_files_, draws, 0, 0)} :
                  LET density == [known |-> TRUE, hits |-> s.hits,
                                  sample |-> Min2(kDensitySample, n)]
                  IN /\ files_density_' = density
                     /\ Apply(t, Ret(start_search(w, exit_reason_, walked,
                                                  too_sparse(walked.count,
                                                             Len(ch.data), density)),
                                     exit_reason_, matches_, s.cache, TRUE))

\* one turn of search_lines' loop
LinesStep(t) ==
    /\ ~crashed
    /\ workers[t].pc = "lines"
    /\ \E R \in {lines_step(workers[t], exit_reason_, matches_, searcher_files_)} :
          Apply(t, R)
    /\ UNCHANGED <<pool, files_density_>>

\* one turn of full_search's loop
ScanStep(t) ==
    /\ ~crashed
    /\ workers[t].pc = "scan"
    /\ \E R \in {scan_step(workers[t], exit_reason_, matches_, searcher_files_)} :
          Apply(t, R)
    /\ UNCHANGED <<pool, files_density_>>

\* try_match for one file of the line
TryStep(t) ==
    /\ ~crashed
    /\ workers[t].pc = "try"
    /\ \E R \in {try_step(workers[t], exit_reason_, matches_, searcher_files_)} :
          Apply(t, R)
    /\ UNCHANGED <<pool, files_density_>>

\* finish_group: queue_.push(m) for the next path of the group
PublishStep(t) ==
    /\ ~crashed
    /\ workers[t].pc = "publish"
    /\ Len(results) < QueueBound
    /\ results' = Append(results, Head(workers[t].out))
    /\ workers' = [workers EXCEPT
                      ![t].out = Tail(@),
                      ![t].pc = IF Len(workers[t].out) = 1 THEN "scan" ELSE @]
    /\ UNCHANGED <<corpusVars, FLAGS, query, exit_reason_, matches_,
                   searcher_files_, files_density_, expired, pool, pending,
                   matches, stats, popped>>

\* search_one, line 1020: queue_.push(NULL), and the thread waits again
SentinelStep(t) ==
    /\ ~crashed
    /\ workers[t].pc = "sentinel"
    /\ Len(results) < QueueBound
    /\ results' = Append(results, Sentinel(workers[t].chunk))
    /\ workers' = [workers EXCEPT ![t] = IdleWorker]
    /\ UNCHANGED <<corpusVars, FLAGS, query, exit_reason_, matches_,
                   searcher_files_, files_density_, expired, pool, pending,
                   matches, stats, popped>>

\* match_internal, lines 994-1003: one turn of the consumer loop
ConsumerPop ==
    /\ ~crashed
    /\ query.state = "running"
    /\ pending # 0
    /\ results # <<>>
    /\ results' = Tail(results)
    /\ popped' = Append(popped, Head(results))
    /\ pending' = IF Head(results).null THEN pending - 1 ELSE pending
    /\ matches' = IF Head(results).null THEN matches ELSE matches + 1
    /\ UNCHANGED <<corpusVars, FLAGS, query, exit_reason_, matches_,
                   searcher_files_, files_density_, expired, pool, workers, stats>>

\* (mutant of ConsumerFinish: the loop ends one sentinel early)
ConsumerFinishEarly ==
    /\ ~crashed
    /\ query.state = "running"
    /\ pending <= 1
    /\ stats' = [why |-> exit_reason_, matches |-> matches]
    /\ query' = [query EXCEPT !.state = "done"]
    /\ UNCHANGED <<corpusVars, FLAGS, exit_reason_, matches_, searcher_files_,
                   files_density_, expired, results, pool, workers, pending,
                   matches, popped>>

\* match_internal, lines 1005-1007: the loop is over, the stats are filled
ConsumerFinish ==
    /\ ~crashed
    /\ query.state = "running"
    /\ pending = 0
    /\ stats' = [why |-> exit_reason_, matches |-> matches]
    /\ query' = [query EXCEPT !.state = "done"]
    /\ UNCHANGED <<corpusVars, FLAGS, exit_reason_, matches_, searcher_files_,
                   files_density_, expired, results, pool, workers, pending,
                   matches, popped>>

-----------------------------------------------------------------------------
(* Specifications of the search *)

\* the corpora the searches run on, as sequences of ingested blobs
CorpusShared == <<Blob("r1", PathSrc, BlobAB), Blob("r1", PathTest, BlobAB)>>
CorpusRepeat == <<Blob("r1", PathSrc, BlobAB), Blob("r1", PathTest, BlobBAB)>>
CorpusBlank  == <<Blob("r1", PathSrc, BlobBlank)>>
CorpusBad    == <<Blob("r1", PathSrc, BlobBad), Blob("r2", PathSrc, BlobTail)>>
CorpusLarge  == <<Blob("r1", PathSrc, BlobAB), Blob("r1", PathTest, BlobFiller),
                  Blob("r2", PathSrc, BlobTail), Blob("r1", PathTest, BlobBAB)>>
CorpusTwo    == <<Blob("r1", PathTest, BlobFiller), Blob("r2", PathSrc, BlobWide)>>
CorpusRefs   == <<Blob("r1", PathSrc, BlobAB), Blob("r2", PathSrc, BlobAB)>>
CorpusLong   == <<Blob("r1", PathSrc, BlobLong)>>

SearchCorpora == {CorpusShared, CorpusRepeat, CorpusBlank, CorpusBad,
                  CorpusLarge, CorpusTwo, CorpusRefs, CorpusLong}

\* the corpus after update_stats for each blob of the sequence
RECURSIVE build(_, _)
build(cs, ins) ==
    IF ins = <<>> THEN cs
    ELSE build(update_stats(cs, Head(ins).ref, Head(ins).path, Head(ins).blob),
               Tail(ins))

FlagSets ==
    {[index |-> ix, search |-> TRUE, max_matches |-> mm, timeout |-> 0] :
        ix \in BOOLEAN, mm \in {SmallCap, DefaultMaxMatches}}
    \cup {[DefaultFlags EXCEPT !.index = ix] : ix \in BOOLEAN}
    \cup {[DefaultFlags EXCEPT !.search = FALSE]}

\* a built corpus that is not finalized yet, the flags, no query yet
InitSearch ==
    /\ \E ins \in SearchCorpora :
          /\ ingested = ins
          /\ LET cs == build(EmptyCorpus, ins)
             IN /\ files_ = cs.files_
                /\ lines_ = cs.lines_
                /\ chunks = cs.chunks
                /\ stats_ = cs.stats_
    /\ finalized_ = FALSE
    /\ crashed = FALSE
    /\ FLAGS \in FlagSets
    /\ NoSearch

StartQueryAny == \E pat \in Patterns, fp \in FilePats : StartQuery(pat, fp)

WorkerStep(t) ==
    \/ TaskStart(t)
    \/ LinesStep(t)
    \/ ScanStep(t)
    \/ TryStep(t)
    \/ PublishStep(t)
    \/ SentinelStep(t)

Consumer == ConsumerPop \/ ConsumerFinish

NextSearch ==
    \/ Finalize
    \/ StartQueryAny
    \/ Deadline
    \/ \E t \in 1..Threads : WorkerStep(t)
    \/ Consumer

SpecSearch == InitSearch /\ [][NextSearch]_vars

\* filtered_search is entered for chunk c (lines 557-566)
WalkWorker(c) ==
    [pc |-> "walk", chunk |-> c,
     stack |-> <<[left |-> 0, right |-> Len(chunks[c].data), depth |-> 0]>>,
     count |-> 0, indexes |-> <<>>, over |-> FALSE,
     split |-> FALSE, frame |-> [left |-> 0, right |-> 0, depth |-> 0],
     pushed |-> <<>>]

\* the IndexKeys of the walk: chains of byte ranges without '\n', narrow and
\* wide, up to the last byte value
WalkRanges ==
    {[lo |-> ByteC, hi |-> ByteC], [lo |-> ByteA, hi |-> ByteB],
     [lo |-> ByteA, hi |-> ByteC], [lo |-> ByteB, hi |-> ByteC + 2],
     [lo |-> NUL, hi |-> NL - 1], [lo |-> ByteBad - 1, hi |-> ByteBad - 1],
     [lo |-> ByteC, hi |-> ByteBad], [lo |-> ByteBad, hi |-> ByteBad]}

WalkKeys ==
    {<<r>> : r \in WalkRanges}
    \cup {<<r, q>> : r \in {[lo |-> ByteA, hi |-> ByteC]}, q \in WalkRanges}

\* a finalized corpus and a thread that enters filtered_search for one of
\* its chunks with one of the keys
InitWalk ==
    /\ \E ins \in SearchCorpora :
          /\ ingested = ins
          /\ LET cs == build(EmptyCorpus, ins)
             IN /\ files_ = cs.files_
                /\ lines_ = cs.lines_
                /\ chunks = [c \in 1..Len(cs.chunks) |-> finalize_chunk(cs.chunks[c])]
                /\ stats_ = cs.stats_
    /\ finalized_ = TRUE
    /\ crashed = FALSE
    /\ FLAGS = DefaultFlags
    /\ \E key \in WalkKeys :
          query = [state |-> "running",
                   pat |-> [k \in 1..Len(key) |-> key[k].lo..key[k].hi],
                   file_pat |-> "", index_ |-> key]
    /\ exit_reason_ = kExitNone
    /\ matches_ = 0
    /\ searcher_files_ = [k \in 0..(Len(files_) - 1) |-> kUnknown]
    /\ files_density_ = [known |-> FALSE, hits |-> 0, sample |-> 0]
    /\ expired = FALSE
    /\ results = <<>>
    /\ pool = <<>>
    /\ \E c \in 1..Len(chunks) :
          workers = [t \in 1..Threads |->
                        IF t = 1 THEN WalkWorker(c) ELSE IdleWorker]
    /\ pending = Len(chunks)
    /\ matches = 0
    /\ stats = [why |-> kExitNone, matches |-> 0]
    /\ popped = <<>>

\* one turn of filtered_search's loop over its stack, lines 568-611
WalkFrame(t) ==
    /\ ~crashed
    /\ workers[t].pc = "walk"
    /\ workers[t].stack # <<>>
    /\ \E w \in {walk_step(chunks[workers[t].chunk], query.index_, workers[t])} :
          IF w.pc = "abort"
          THEN crashed' = TRUE /\ UNCHANGED workers
          ELSE workers' = [workers EXCEPT ![t] = w] /\ UNCHANGED crashed
    /\ UNCHANGED <<files_, lines_, chunks, stats_, finalized_, ingested, FLAGS,
                   query, exit_reason_, matches_, searcher_files_,
                   files_density_, expired, results, pool, pending, matches,
                   stats, popped>>

\* line 615 and the head of search_lines (lines 630-655): the walk is over
\* and its count and buffer go to search_lines
WalkLines(t) ==
    /\ ~crashed
    /\ workers[t].pc = "walk"
    /\ workers[t].stack = <<>>
    /\ workers' = [workers EXCEPT ![t] =
                      start_search([IdleWorker EXCEPT !.chunk = workers[t].chunk],
                                   exit_reason_,
                                   [count |-> workers[t].count,
                                    indexes |-> workers[t].indexes, ok |-> TRUE],
                                   FALSE)]
    /\ UNCHANGED <<files_, lines_, chunks, stats_, finalized_, ingested, crashed,
                   FLAGS, query, exit_reason_, matches_, searcher_files_,
                   files_density_, expired, results, pool, pending, matches,
                   stats, popped>>

NextWalk == \E t \in 1..Threads : WalkFrame(t) \/ WalkLines(t)

SpecWalk == InitWalk /\ [][NextWalk]_vars

\* the whole life of a code_searcher: walk_ref, finalize and searches, in
\* any order the owning thread may call them
NextLifecycle == IngestAny \/ NextSearch

SpecLifecycle == InitCorpus /\ [][NextLifecycle]_vars

\* the pool's threads and the consumer are scheduled fairly
SpecFair ==
    /\ SpecSearch
    /\ \A t \in 1..Threads : WF_vars(WorkerStep(t))
    /\ WF_vars(Consumer)

-----------------------------------------------------------------------------
(* What the builder was given, read off the history of inputs *)

\* the complete (newline-terminated) lines of a blob, in order
RECURSIVE CompleteLines(_)
CompleteLines(blob) ==
    IF \A i \in 1..Len(blob) : blob[i] # NL THEN <<>>
    ELSE LET f == CHOOSE i \in 1..Len(blob) :
                      blob[i] = NL /\ \A j \in 1..(i - 1) : blob[j] # NL
         IN <<SubSeq(blob, 1, f - 1)>> \o CompleteLines(SubSeq(blob, f + 1, Len(blob)))

HasNul(blob) == \E i \in 1..Len(blob) : blob[i] = NUL

Range(s) == {s[i] : i \in 1..Len(s)}

\* the inputs with the given content, in the order they were ingested
RECURSIVE PathsOf(_, _)
PathsOf(hist, blob) ==
    IF hist = <<>> THEN <<>>
    ELSE (IF Head(hist).blob = blob
          THEN <<GitPath(Head(hist).ref, Head(hist).path)>> ELSE <<>>)
         \o PathsOf(Tail(hist), blob)

\* the segments of a file joined with one '\n' between consecutive segments
RECURSIVE JoinSegments(_, _)
JoinSegments(chs, content) ==
    IF content = <<>> THEN <<>>
    ELSE IF Len(content) = 1 THEN Content(chs, content[1])
    ELSE Content(chs, content[1]) \o <<NL>> \o JoinSegments(chs, Tail(content))

\* the lines a file's segments stand for
SegmentLines(chs, content) ==
    IF content = <<>> THEN <<>>
    ELSE CompleteLines(JoinSegments(chs, content) \o <<NL>>)

\* the numbers of the SearchFiles whose blob has the line with these bytes
FilesWithLine(bytes) ==
    {files_[i].no : i \in {k \in 1..Len(files_) :
                              bytes \in Range(CompleteLines(files_[k].oid))}}

\* the ChunkFiles of chunk c that contain offset x
Covering(c, x) ==
    {k \in 1..Len(chunks[c].files) :
        chunks[c].files[k].left <= x /\ x <= chunks[c].files[k].right}

-----------------------------------------------------------------------------
(* Claims about the corpus builder *)

\* C6 (state part): every NUL-free content that was ingested has exactly one
\* SearchFile, numbered by its position, whose paths are all the (ref, path)
\* pairs it was ingested under.
DedupInv ==
    /\ \A k \in 1..Len(ingested) :
          ~HasNul(ingested[k].blob) =>
             /\ Cardinality({i \in 1..Len(files_) :
                                files_[i].oid = ingested[k].blob}) = 1
             /\ \A i \in 1..Len(files_) :
                   files_[i].oid = ingested[k].blob =>
                      files_[i].paths = PathsOf(ingested, ingested[k].blob)
    /\ \A i \in 1..Len(files_) : files_[i].no = i - 1

\* C6 (step part): ingesting content that is already known creates no
\* SearchFile and adds no line, segment or ChunkFile.
ReingestStable ==
    (/\ Len(ingested') = Len(ingested) + 1
     /\ \E i \in 1..Len(files_) : files_[i].oid = ingested'[Len(ingested')].blob)
    => /\ Len(files_') = Len(files_)
       /\ lines_' = lines_
       /\ chunks' = chunks
       /\ stats_'.lines = stats_.lines
       /\ \A i \in 1..Len(files_) :
             /\ files_'[i].content = files_[i].content
             /\ files_'[i].no = files_[i].no

\* C6: Deduplication - one SearchFile per distinct NUL-free content, holding
\* every (ref, path) it was ingested under; re-ingesting known content adds
\* no SearchFile, number, line, segment or ChunkFile.
C6_Deduplication == [](DedupInv) /\ [][ReingestStable]_corpusVars

\* C6 witness: some content was ingested under two paths and is one file
C6_Witness ==
    \E i \in 1..Len(files_) :
        /\ Len(files_[i].paths) >= 2
        /\ files_[i].content # <<>>

\* C9: Segment reconstruction - for every SearchFile, its segments joined
\* with one '\n' between consecutive segments are exactly the complete lines
\* of the ingested blob (same number, bytes and order).
C9_SegmentReconstruction ==
    \A i \in 1..Len(files_) :
        SegmentLines(chunks, files_[i].content) = CompleteLines(files_[i].oid)

-----------------------------------------------------------------------------
(* What a query should give, read off the ingested blobs and the chunks *)

\* the match_results handed to the callback so far
Delivered == SelectSeq(popped, LAMBDA r : ~r.null)

QueryDone == query.state = "done" /\ FLAGS.search

\* neither a timeout nor a match cap the corpus could reach
Unbudgeted == FLAGS.timeout <= 0 /\ FLAGS.max_matches = DefaultMaxMatches

\* the (file, line number, line bytes) triples of the delivered results
Emitted ==
    UNION {{<<r.context[k].file, r.context[k].lno, Content(chunks, r.line)>> :
               k \in 1..Len(r.context)} : r \in Range(Delivered)}

\* the file-path regex on a path, and on a file (any of its paths)
PathMatches(path) == query.file_pat = "" \/ path.path[1] = query.file_pat
FileMatches(no) == \E p \in Range(files_[no + 1].paths) : PathMatches(p)

\* the pattern matches inside these bytes
LineMatches(bytes) == re2_Match(bytes, 0, Len(bytes), query.pat) # -1

\* the interned lines of chunk c
ChunkLines(c) ==
    LET d == chunks[c].data
    IN {StringPiece(c, o, memchr(d, o, NL) - o) :
           o \in {x \in 0..(Len(d) - 1) : x = 0 \/ d[x] = NL}}

\* the files recorded around the line by the ChunkFiles of its chunk
FilesAround(sp) ==
    UNION {Range(chunks[sp.c].files[k].files) : k \in Covering(sp.c, sp.o)}

\* what the search with indexing disabled reports: every valid matching line
\* of every chunk, for every accepted file recorded around it, at the line
\* number try_match counts
DisabledSet ==
    UNION {{<<no, find_segment(files_[no + 1].content, 1, sp, 1).lno,
              Content(chunks, sp)>> :
               no \in {f \in FilesAround(sp) :
                          /\ FileMatches(f)
                          /\ find_segment(files_[f + 1].content, 1, sp, 1).found}} :
           sp \in {l \in UNION {ChunkLines(c) : c \in 1..Len(chunks)} :
                      /\ LineMatches(Content(chunks, l))
                      /\ is_valid(Content(chunks, l))}}

\* every (file, line number) of the ingested blobs whose line is valid
\* UTF-8, matches the pattern and whose file the filter accepts
Expected ==
    UNION {{<<files_[i].no, n, CompleteLines(files_[i].oid)[n]>> :
               n \in {x \in 1..Len(CompleteLines(files_[i].oid)) :
                         /\ LineMatches(CompleteLines(files_[i].oid)[x])
                         /\ is_valid(CompleteLines(files_[i].oid)[x])}} :
           i \in {k \in 1..Len(files_) : FileMatches(files_[k].no)}}

\* the sentinels of chunk c pushed so far
SentinelsOf(c) ==
    Cardinality({k \in 1..Len(results) : results[k] = Sentinel(c)})
    + Cardinality({k \in 1..Len(popped) : popped[k] = Sentinel(c)})

SentinelsPopped == Cardinality({k \in 1..Len(popped) : popped[k].null})

-----------------------------------------------------------------------------
(* Claims about the search *)

C2_Completeness ==
    (QueryDone /\ Unbudgeted /\ ~FLAGS.index) => Emitted = Expected

\* C3: Soundness - every delivered MatchContext names a file whose blob has
\* the emitted line, the pattern matches the line, and every listed path is
\* a path of that file which the file filter accepts.
C3_Soundness ==
    \A r \in Range(Delivered) : \A k \in 1..Len(r.context) :
        LET ctx == r.context[k]
        IN /\ ctx.file \in 0..(Len(files_) - 1)
           /\ Content(chunks, r.line) \in Range(CompleteLines(files_[ctx.file + 1].oid))
           /\ LineMatches(Content(chunks, r.line))
           /\ ctx.paths # <<>>
           /\ \A p \in Range(ctx.paths) :
                 p \in Range(files_[ctx.file + 1].paths) /\ PathMatches(p)

\* C3 witness: under the filter ^src/ a blob shared by src/a and test/b was
\* delivered under src/a only
C3_Witness ==
    /\ QueryDone
    /\ query.file_pat = "src"
    /\ \E r \in Range(Delivered) : \E k \in 1..Len(r.context) :
          /\ \E p \in Range(files_[r.context[k].file + 1].paths) : p.path = PathTest
          /\ \A p \in Range(r.context[k].paths) : p.path = PathSrc

\* C4: Budget honored - the number of MatchResults delivered in one query
\* (stats.matches) is at most max_matches.
C4_BudgetHonored ==
    QueryDone => stats.matches <= FLAGS.max_matches

\* C5: Line-number correctness - for every delivered MatchContext the
\* line_number-th line of the file's blob is the emitted line.
C5_LineNumber ==
    \A r \in Range(Delivered) : \A k \in 1..Len(r.context) :
        LET lines == CompleteLines(files_[r.context[k].file + 1].oid)
            lno == r.context[k].lno
        IN lno \in 1..Len(lines) /\ lines[lno] = Content(chunks, r.line)

\* C7 (state part): no chunk task pushes a second sentinel, the consumer
\* counts one sentinel per chunk, and its loop ends exactly when all N have
\* been received.
SentinelInv ==
    (FLAGS.search /\ query.state # "none") =>
        /\ \A c \in 1..Len(chunks) : SentinelsOf(c) <= 1
        /\ pending = Len(chunks) - SentinelsPopped
        /\ query.state = "done" =>
              /\ \A c \in 1..Len(chunks) : SentinelsOf(c) = 1
              /\ SentinelsPopped = Len(chunks)
              /\ results = <<>>

\* C7: Query termination - under fair scheduling every query on a finalized
\* corpus completes; each chunk task pushes exactly one sentinel and the
\* consumer loop ends exactly when N sentinels have been received.
C7_Termination ==
    /\ (query.state = "running") ~> (query.state = "done")
    /\ [](SentinelInv)

\* C7 witness: a query over two chunks that was stopped early has completed
C7_Witness ==
    /\ QueryDone
    /\ Len(chunks) >= 2
    /\ stats.why # kExitNone
    /\ SentinelsPopped = Len(chunks)

-----------------------------------------------------------------------------
(* Claims about the contexts, the order and the grouping of the results *)

\* the bytes of the lines of a context list
ContextBytes(sps) == [j \in 1..Len(sps) |-> Content(chunks, sps[j])]

\* the n-th line of the blob with its neighbours, nearest first, as
\* try_match is to report them
ContextAt(lines, n, ctx, text) ==
    /\ lines[n] = text
    /\ ContextBytes(ctx.context_before)
          = [j \in 1..Min2(kContextLines, n - 1) |-> lines[n - j]]
    /\ ContextBytes(ctx.context_after)
          = [j \in 1..Min2(kContextLines, Len(lines) - n) |-> lines[n + j]]

\* C11: Context bounds - every delivered MatchContext carries
\* min(kContextLines, lines before) lines of context_before and
\* min(kContextLines, complete lines after) lines of context_after, and they
\* are the neighbours of the matched line in the file's blob.
C11_ContextBounds ==
    \A r \in Range(Delivered) : \A k \in 1..Len(r.context) :
        LET lines == CompleteLines(files_[r.context[k].file + 1].oid)
        IN \E n \in 1..Len(lines) :
              ContextAt(lines, n, r.context[k], Content(chunks, r.line))

\* the match_results in the order of their push: those popped already, then
\* those still in the queue
Pushed == SelectSeq(popped \o results, LAMBDA r : ~r.null)

\* C12: Ordering within a chunk - of two MatchResults of one chunk, the one
\* pushed earlier has the smaller or the same line offset, with and without
\* the index.
C12_OrderWithinChunk ==
    \A i \in 1..Len(Pushed) : \A j \in (i + 1)..Len(Pushed) :
        Pushed[i].chunk = Pushed[j].chunk => Pushed[i].line.o <= Pushed[j].line.o

\* C12 witness: an indexed query has delivered two results of one chunk
\* whose lines lie in two ranges of search_lines
C12_Witness ==
    /\ QueryDone
    /\ FLAGS.index /\ query.index_ # <<>>
    /\ \E i \in 1..Len(Pushed) : \E j \in (i + 1)..Len(Pushed) :
          /\ Pushed[i].chunk = Pushed[j].chunk
          /\ Pushed[j].line.o >= Pushed[i].line.o + kMinSkip

\* the path string a MatchResult was published for
KeyOf(r) == r.context[1].paths[1].path

\* the (ref, path) pairs of file no that the file filter accepts
AcceptedPaths(no) == {p \in Range(files_[no + 1].paths) : PathMatches(p)}

\* the SearchFiles that contain the interned line sp
HoldersOf(sp) ==
    {f \in FilesAround(sp) : find_segment(files_[f + 1].content, 1, sp, 1).found}

\* the accepted path strings among the files that contain sp
KeysOf(sp) == {p.path : p \in UNION {AcceptedPaths(f) : f \in HoldersOf(sp)}}

\* the MatchResult r of line sp is the group of its path string: one
\* MatchContext per file that has the line under that path string, with
\* every accepted (ref, path) pair of the file for that string
GroupOf(r, sp) ==
    LET fs == {f \in HoldersOf(sp) : \E p \in AcceptedPaths(f) : p.path = KeyOf(r)}
    IN /\ Len(r.context) = Cardinality(fs)
       /\ \A f \in fs : \E c \in 1..Len(r.context) :
             /\ r.context[c].file = f
             /\ Range(r.context[c].paths)
                   = {p \in AcceptedPaths(f) : p.path = KeyOf(r)}

\* the delivered results of line sp are one group per accepted path string
\* for each time the line was confirmed: in the order of delivery they come
\* in runs of one result per string
Grouped(sp) ==
    LET rs == SelectSeq(Delivered, LAMBDA r : r.line = sp)
        n == Cardinality(KeysOf(sp))
    IN /\ n > 0
       /\ Len(rs) % n = 0
       /\ \A run \in 0..((Len(rs) \div n) - 1) :
             {KeyOf(rs[run * n + k]) : k \in 1..n} = KeysOf(sp)
       /\ \A k \in 1..Len(rs) : GroupOf(rs[k], sp)

\* C13 as claimed: Match grouping - for every confirmed line one MatchResult
\* is published per distinct accepted path string among the files that
\* contain the line, each with one MatchContext per file listing every
\* accepted (ref, path) pair, and the counter counts the published results.
C13_MatchGrouping ==
    QueryDone =>
        /\ \A r \in Range(Delivered) : Grouped(r.line)
        /\ matches_ = Len(Delivered)

\* C13 as amended: the counter counts the published results, and the results
\* of a line are one group per accepted path string when neither the cap
\* nor the timeout stops find_match's loops over the files of the line.
C13_MatchGroupingUnbudgeted ==
    QueryDone =>
        /\ Unbudgeted => \A r \in Range(Delivered) : Grouped(r.line)
        /\ matches_ = Len(Delivered)

\* C13 witness: a blob under two refs at one path string was delivered as
\* one MatchResult with one MatchContext that lists both (ref, path) pairs
C13_Witness ==
    /\ QueryDone /\ Unbudgeted
    /\ \E r \in Range(Delivered) :
          /\ Len(r.context) = 1
          /\ Cardinality({p.ref : p \in Range(r.context[1].paths)}) = 2
          /\ Cardinality({p.path : p \in Range(r.context[1].paths)}) = 1

-----------------------------------------------------------------------------
(* Claims about lines that are not valid UTF-8 *)

\* what one turn of full_search's loop finds for the worker: the range
\* next_range leaves when the current one is used up, the limit of the
\* regex run, and the line around the leftmost match
ScanTurn(w) ==
    LET d == chunks[w.chunk].data
        nr == IF w.pos >= w.end
              THEN next_range(chunks[w.chunk].files, w.it, searcher_files_,
                              w.pos, w.maxpos, w.maxpos)
              ELSE [it |-> w.it, cache |-> searcher_files_,
                    pos |-> w.pos, endpos |-> w.end]
        limit == IF nr.endpos - nr.pos > kMaxScan
                 THEN line_end(d, nr.pos + kMaxScan) ELSE nr.endpos
        mo == IF nr.pos >= w.maxpos THEN -1
              ELSE re2_Match(d, nr.pos, limit, query.pat)
    IN [found |-> mo # -1,
        ln |-> IF mo = -1 THEN [o |-> 0, n |-> 0]
               ELSE find_line(d, mo, Len(query.pat))]

\* thread t is about to run a turn of full_search's loop whose match lies
\* in a line that is not valid UTF-8
MeetsInvalidLine(t) ==
    LET w == workers[t]
    IN /\ ~crashed
       /\ w.pc = "scan"
       /\ w.pos < w.maxpos
       /\ ~exit_early(exit_reason_, matches_).ret
       /\ ScanTurn(w).found
       /\ ~is_valid(Bytes(chunks[w.chunk].data, ScanTurn(w).ln.o, ScanTurn(w).ln.n))

\* chunk c holds a line the pattern matches that is not valid UTF-8
HasInvalidMatch(c) ==
    \E l \in ChunkLines(c) :
        LineMatches(Content(chunks, l)) /\ ~is_valid(Content(chunks, l))

\* the line has an accepted file among the files recorded around it
HasAcceptedFile(l) ==
    \E f \in FilesAround(l) :
        FileMatches(f) /\ find_segment(files_[f + 1].content, 1, l, 1).found

\* C14: Non-UTF-8 filtering - a matched line that is not valid UTF-8 is
\* never handed to find_match (no thread resolves it, no result carries it);
\* the turn of full_search that meets it publishes nothing and leaves the
\* scan at the byte after the line; and in a completed query without budget
\* every valid matching line with an accepted file in a chunk that holds
\* such a line is delivered.
C14_NonUtf8Filtering ==
    /\ [](/\ \A t \in 1..Threads :
               workers[t].line # NoLine => is_valid(Content(chunks, workers[t].line))
          /\ \A r \in Range(Pushed) : is_valid(Content(chunks, r.line)))
    /\ [][\A t \in 1..Threads :
             (MeetsInvalidLine(t) /\ workers'[t] # workers[t])
             => /\ workers'[t].pc = "scan"
                /\ workers'[t].pos = ScanTurn(workers[t]).ln.o
                                      + ScanTurn(workers[t]).ln.n + 1
                /\ workers'[t].line = NoLine
                /\ matches_' = matches_
                /\ results' = results]_vars
    /\ []((QueryDone /\ Unbudgeted)
            => \A c \in 1..Len(chunks) :
                  HasInvalidMatch(c)
                  => \A l \in ChunkLines(c) :
                        (/\ LineMatches(Content(chunks, l))
                         /\ is_valid(Content(chunks, l))
                         /\ HasAcceptedFile(l))
                        => \E r \in Range(Delivered) : r.line = l)

\* C14 witness: a completed query without budget over a chunk with a matched
\* invalid line delivered a valid line of that chunk that lies after it
C14_Witness ==
    /\ QueryDone /\ Unbudgeted
    /\ \E c \in 1..Len(chunks) :
          \E l \in ChunkLines(c) :
             /\ LineMatches(Content(chunks, l)) /\ ~is_valid(Content(chunks, l))
             /\ \E r \in Range(Delivered) : r.line.c = c /\ r.line.o > l.o

-----------------------------------------------------------------------------
(* Claims about line interning and the lifecycle *)

\* the distinct complete lines of the NUL-free blobs ingested so far
IngestedLines ==
    UNION {Range(CompleteLines(ingested[k].blob)) :
              k \in {x \in 1..Len(ingested) : ~HasNul(ingested[x].blob)}}

\* the lines the chunks' bytes hold, each up to its '\n'
AllChunkLines == UNION {ChunkLines(c) : c \in 1..Len(chunks)}

\* the bytes allocated in the chunks
RECURSIVE AllocatedBytes(_)
AllocatedBytes(chs) ==
    IF chs = <<>> THEN 0 ELSE Len(Head(chs).data) + AllocatedBytes(Tail(chs))

\* the bytes the spans of the set take, each with its '\n'
RECURSIVE LineBytes(_)
LineBytes(S) ==
    IF S = {} THEN 0
    ELSE ByValue(LAMBDA x : x.n + 1 + ByValue(LineBytes, S \ {x}),
                 CHOOSE y \in S : TRUE)

\* the segment starts at an interned line and ends at one
OnInternedLines(seg) ==
    /\ \E l \in lines_ : l.c = seg.c /\ l.o = seg.o
    /\ \E l \in lines_ : l.c = seg.c /\ l.o + l.n = seg.o + seg.n

\* C15: Line interning - the chunks hold each distinct ingested line once,
\* followed by '\n', and nothing else; the intern set is the set of these
\* spans; every file's segments lie on interned spans; dedup_lines is the
\* size of the intern set and dedup_bytes the bytes allocated; and an ingest
\* keeps every interned span where it is and allocates the bytes of the
\* spans it adds to the intern set, and no others.
C15_LineInterning ==
    /\ [](/\ lines_ = AllChunkLines
          /\ {Content(chunks, l) : l \in lines_} = IngestedLines
          /\ \A bytes \in IngestedLines :
                Cardinality({l \in AllChunkLines : Content(chunks, l) = bytes}) = 1
          /\ \A i \in 1..Len(files_) :
                \A k \in 1..Len(files_[i].content) :
                   OnInternedLines(files_[i].content[k])
          /\ stats_.dedup_lines = Cardinality(lines_)
          /\ stats_.dedup_bytes = AllocatedBytes(chunks))
    /\ [][/\ lines_ \subseteq lines_'
          /\ \A l \in lines_ : Content(chunks', l) = Content(chunks, l)
          /\ AllocatedBytes(chunks') - AllocatedBytes(chunks)
                = ByValue(LineBytes, lines_' \ lines_)]_vars

\* C15 witness: two different blobs that share lines were ingested, one of
\* them with a line that it repeats, and nothing was allocated for the
\* repetitions
C15_Witness ==
    /\ Len(files_) = 2
    /\ \E bytes \in Range(CompleteLines(files_[1].oid)) :
          bytes \in Range(CompleteLines(files_[2].oid))
    /\ \E i \in 1..2 :
          Len(CompleteLines(files_[i].oid))
             > Cardinality(Range(CompleteLines(files_[i].oid)))
    /\ stats_.lines > stats_.dedup_lines
    /\ stats_.dedup_bytes < stats_.bytes

\* C16: Lifecycle - finalize takes effect at most once and a second call
\* is rejected; walk_ref after finalize is rejected; a search before
\* finalize is rejected and starts nothing; so a search only ever runs on a
\* finalized corpus, and a finalized corpus is never modified again.
C16_Lifecycle ==
    /\ [][/\ finalized_ => finalized_'
          /\ finalized_ => UNCHANGED <<files_, lines_, chunks, stats_, ingested>>
          /\ (Finalize /\ finalized_) => crashed'
          /\ (IngestAny /\ finalized_) => crashed'
          /\ (StartQueryAny /\ ~finalized_) => (crashed' /\ UNCHANGED searchVars)
          /\ crashed => UNCHANGED vars]_vars
    /\ [](query.state # "none" => finalized_)
    /\ [](\A t \in 1..Threads : workers[t].pc # "idle" => finalized_)

\* C16 witness: blobs were walked, the corpus was finalized, a search ran to
\* its end on it, and a later walk_ref or finalize was rejected
C16_Witness ==
    /\ Len(files_) = MaxIngest
    /\ finalized_
    /\ query.state = "done"
    /\ Len(popped) > 1
    /\ crashed

-----------------------------------------------------------------------------
(* Claims about the index walk *)

\* the positions of the suffix array the frames hold
FramePositions(frames) ==
    UNION {f.left..(f.right - 1) : f \in Range(frames)}

RECURSIVE FrameSizes(_)
FrameSizes(frames) ==
    IF frames = <<>> THEN 0
    ELSE (Head(frames).right - Head(frames).left) + FrameSizes(Tail(frames))

\* the positions of frame st whose suffix has a byte of the range rg at the
\* frame's depth
PositionsInRange(ch, st, rg) ==
    {k \in st.left..(st.right - 1) :
        LET b == ch.data[ch.suffixes[k + 1] + st.depth + 1]
        IN b # NL /\ rg.lo <= b /\ b <= rg.hi}

\* the walk of the thread has come to its end
WalkDone(t) == workers[t].pc = "walk" /\ workers[t].stack = <<>>

\* B = chunk_capacity / MIN_FILTER_RATIO
Budget == ChunkCapacity \div kMinFilterRatio

\* the next turn of the walk of thread t copies a slice that does not fit
\* into what is left of the budget
WouldExceed(t) ==
    LET w == workers[t]
        st == w.stack[Len(w.stack)]
    IN /\ w.pc = "walk" /\ w.stack # <<>>
       /\ st.depth >= Len(query.index_) \/ st.right - st.left <= kSmallSlice
       /\ w.count + (st.right - st.left) > Budget

\* C17: Index Walker range narrowing - for every frame that is split on a
\* range [lo, hi] of the key, the frames pushed are at the next depth, do
\* not overlap and hold exactly the positions of the slice whose suffix has
\* a byte of [lo, hi] at the frame's depth, for every lo <= hi <= 255; and
\* the per-byte loop is always left.
C17_RangeNarrowing ==
    \A t \in 1..Threads :
        LET w == workers[t]
        IN /\ w.pc # "spin"
           /\ (w.pc = "walk" /\ w.split)
              => /\ FramePositions(w.pushed)
                      = PositionsInRange(chunks[w.chunk], w.frame,
                                         query.index_[w.frame.depth + 1])
                 /\ FrameSizes(w.pushed) = Cardinality(FramePositions(w.pushed))
                 /\ \A f \in Range(w.pushed) : f.depth = w.frame.depth + 1

\* C17 for the ranges that end below the last byte value
C17_RangeNarrowingBelow255 ==
    (\A k \in 1..Len(query.index_) : query.index_[k].hi < 255)
    => C17_RangeNarrowing

\* the walk taken turn by turn ends with what filtered_search computes
WalkAgrees ==
    \A t \in 1..Threads :
        WalkDone(t)
        => LET r == filtered_search(chunks[workers[t].chunk], query.index_)
           IN r.count = workers[t].count /\ r.indexes = workers[t].indexes

\* C18: Candidate budget - the walk never holds more than B candidates in
\* the buffer, and its count is the number written or B + 1; a turn that
\* would copy a slice past B writes nothing, sets count to B + 1 and ends
\* the walk; and with that count search_lines goes to the full scan of the
\* whole chunk without taking anything from the buffer, whatever the size
\* of the chunk.
C18_CandidateBudget ==
    /\ [](\A t \in 1..Threads :
             workers[t].pc = "walk"
             => /\ Len(workers[t].indexes) <= Budget
                /\ workers[t].over <=> workers[t].count = Budget + 1
                /\ ~workers[t].over => workers[t].count = Len(workers[t].indexes))
    /\ [][\A t \in 1..Threads :
             (WouldExceed(t) /\ workers'[t] # workers[t])
             => /\ workers'[t].indexes = workers[t].indexes
                /\ workers'[t].count = Budget + 1
                /\ workers'[t].stack = <<>>]_vars
    /\ [][\A t \in 1..Threads :
             (WalkDone(t) /\ workers[t].count = Budget + 1
              /\ workers'[t] # workers[t])
             => workers'[t] =
                   [IdleWorker EXCEPT !.pc = "scan",
                                      !.chunk = workers[t].chunk,
                                      !.pos = 0, !.end = 0,
                                      !.maxpos = Len(chunks[workers[t].chunk].data) - 1]]_vars

\* C18 witness: a walk ended over budget with count B + 1
C18_Witness ==
    \E t \in 1..Threads :
        WalkDone(t) /\ workers[t].over /\ workers[t].count = Budget + 1

-----------------------------------------------------------------------------
(* Claims about find_match's tree and the segments of a file *)

\* the nodes find_match's walk of the tree of chunk c visits for loff
TreeVisits(c, loff) ==
    tree_walk(chunks[c], <<[node |-> chunks[c].cf_root, visit |-> FALSE]>>,
              loff, <<>>)

\* s is what is left of u after some of its head was taken
IsSuffixOf(s, u) ==
    Len(s) <= Len(u) /\ s = SubSeq(u, Len(u) - Len(s) + 1, Len(u))

\* C19: Tree walk equals linear scan - for every offset of every finalized
\* chunk (the chunks do not change after finalize), the tree walk visits
\* the ChunkFiles that find_match_brute's scan selects, those with
\* left <= loff <= right, each once, in ascending order of left, so the
\* assert of line 853 holds at every visit; and what a thread of an indexed
\* search still has to visit for its line is a tail of that sequence.
C19_TreeWalkEqualsScan ==
    /\ (finalized_ /\ query.state = "none")
       => \A c \in 1..Len(chunks) : \A loff \in 0..(Len(chunks[c].data) - 1) :
             LET v == TreeVisits(c, loff)
                 fs == chunks[c].files
             IN /\ v = find_match_brute(chunks[c], loff)
                /\ Range(v) = Covering(c, loff)
                /\ Cardinality(Range(v)) = Len(v)
                /\ \A i, j \in 1..Len(v) : i < j => fs[v[i]].left <= fs[v[j]].left
                /\ \A i \in 1..Len(v) :
                      loff >= fs[v[i]].left /\ loff <= fs[v[i]].right
    /\ \A t \in 1..Threads :
          (workers[t].pc = "try" /\ FLAGS.index)
          => /\ workers[t].visits # <<>>
             /\ IsSuffixOf(workers[t].visits,
                           find_match_brute(chunks[workers[t].chunk],
                                            workers[t].line.o))

\* C19 witness: a thread of an indexed search is in the first of three
\* ChunkFiles that the tree walk found around its line
C19_Witness ==
    \E t \in 1..Threads :
        /\ FLAGS.index
        /\ workers[t].pc = "try"
        /\ Len(workers[t].visits) >= 3
        /\ chunks[workers[t].chunk].tree[chunks[workers[t].chunk].cf_root].left # 0
        /\ chunks[workers[t].chunk].tree[chunks[workers[t].chunk].cf_root].right # 0

\* the interned span of the k-th complete line of file i
SpanOfLine(i, k) ==
    CHOOSE l \in lines_ :
        Content(chunks, l) = CompleteLines(files_[i].oid)[k]

\* the k-th line of file i is not stored right after the '\n' that ends
\* its line k - 1
BreakAt(i, k) ==
    LET prev == SpanOfLine(i, k - 1)
        this == SpanOfLine(i, k)
    IN ~(this.c = prev.c /\ this.o = prev.o + prev.n + 1)

\* C20: Segment coalescing - a line stored right after the '\n' that ends
\* the file's last segment extends that segment, any other line starts a
\* new one: a file has one segment more than it has lines that are not
\* stored right behind their predecessor, and a file whose lines lie back
\* to back in one chunk has exactly one segment, which spans them all.
C20_SegmentCoalescing ==
    \A i \in 1..Len(files_) :
        LET L == CompleteLines(files_[i].oid)
            breaks == {k \in 2..Len(L) : BreakAt(i, k)}
        IN Len(L) >= 1
           => /\ Len(files_[i].content) = 1 + Cardinality(breaks)
              /\ breaks = {}
                 => files_[i].content
                      = <<StringPiece(SpanOfLine(i, 1).c, SpanOfLine(i, 1).o,
                                      SpanOfLine(i, Len(L)).o
                                      + SpanOfLine(i, Len(L)).n
                                      - SpanOfLine(i, 1).o)>>

-----------------------------------------------------------------------------
(* Claims about the file-interval finger *)

\* thread t is at line 734 of an indexed, path-filtered search: its next
\* step calls next_range(finger, pos, end = maxpos, maxpos)
FingerCall(t) ==
    /\ ~crashed
    /\ FLAGS.index /\ query.file_pat # ""
    /\ workers[t].pc = "scan"
    /\ workers[t].pos < workers[t].maxpos
    /\ ~exit_early(exit_reason_, matches_).ret
    /\ workers[t].pos >= workers[t].end

\* what that call returns
FingerResult(t) ==
    next_range(chunks[workers[t].chunk].files, workers[t].it, searcher_files_,
               workers[t].pos, workers[t].maxpos, workers[t].maxpos)

\* ChunkFile k of chunk c has a SearchFile the path filter accepts
AcceptedChunkFile(c, k) ==
    \E f \in Range(chunks[c].files[k].files) : FileMatches(f)

\* the thread is inside search_lines or full_search for its chunk
InChunk(w) == w.pc \in {"lines", "scan", "try", "publish"}

\* C21: File-interval finger - the finger of a thread never moves back
\* while the thread is in one chunk; every call of next_range returns with
\* pos <= end <= maxpos and the finger not moved back; no byte between the
\* pos it was called with and the pos it returns lies in a ChunkFile with
\* an accepted SearchFile; and an accepted ChunkFile the finger has passed
\* ends inside what was returned for scanning.
C21_FileIntervalFinger ==
    /\ [][\A t \in 1..Threads :
             (InChunk(workers[t]) /\ InChunk(workers'[t])
              /\ workers'[t].chunk = workers[t].chunk)
             => workers'[t].it >= workers[t].it]_vars
    /\ [](\A t \in 1..Threads :
             FingerCall(t)
             => LET nr == FingerResult(t)
                    w == workers[t]
                IN /\ nr.it >= w.it
                   /\ w.pos <= nr.pos
                   /\ nr.pos <= nr.endpos /\ nr.endpos <= w.maxpos
                   /\ \A x \in w.pos..(nr.pos - 1) :
                         \A k \in Covering(w.chunk, x) :
                            ~AcceptedChunkFile(w.chunk, k)
                   /\ \A k \in 1..(nr.it - 1) :
                         AcceptedChunkFile(w.chunk, k)
                         => chunks[w.chunk].files[k].right <= nr.endpos)

\* C21 witness: a thread whose finger has already moved calls next_range
\* again, and the call skips bytes and returns a range inside maxpos
C21_Witness ==
    \E t \in 1..Threads :
        /\ FingerCall(t)
        /\ workers[t].it > 1
        /\ FingerResult(t).pos > workers[t].pos
        /\ FingerResult(t).pos < FingerResult(t).endpos

-----------------------------------------------------------------------------
(* Claims about cancellation, the accept cache and the result queue *)

\* thread t takes a step
Moves(t) == workers'[t] # workers[t]

\* C22: Cancellation response - in a step that starts with exit_reason_
\* set, a thread that takes a task goes straight to its sentinel; a thread
\* in search_lines or full_search starts no regex call (its position does
\* not move) and leaves the loop; a thread that had passed exit_early() for
\* a file finishes that one try_match and begins no other; a thread that
\* publishes goes on publishing the group it has; and matches_ changes in
\* that one try_match only.
C22_CancellationResponse ==
    [][\A t \in 1..Threads :
          (exit_reason_ # kExitNone /\ Moves(t))
          => LET w == workers[t]
                 v == workers'[t]
             IN /\ v.pc # "try"
                /\ w.pc = "idle" => v.pc = "sentinel"
                /\ w.pc = "lines" => v.pc = "sentinel"
                /\ w.pc = "scan"
                   => /\ v.pc \in {"lines", "sentinel"}
                      /\ v.pos = w.pos \/ v.pc = "sentinel"
                /\ w.pc = "try" => v.pc \in {"publish", "scan"}
                /\ w.pc = "publish"
                   => v.pc \in {"publish", "scan"} /\ v.out = Tail(w.out)
                /\ w.pc # "try" => matches_' = matches_
                /\ exit_reason_' = exit_reason_]_vars

\* C22 witness: the reason is set while a thread is still inside
\* full_search with bytes left to scan
C22_Witness ==
    /\ exit_reason_ # kExitNone
    /\ \E t \in 1..Threads :
          /\ workers[t].pc = "scan"
          /\ workers[t].pos < workers[t].maxpos

-----------------------------------------------------------------------------
(* The visit loop of find_match and find_match_brute, one shared access per
   step: accept(sf) reads and writes the cache searcher::files_, exit_early()
   reads and writes exit_reason_ and reads matches_ and the clock, try_match
   increments matches_ *)

\* the files one thread visits
MaxVisits == 2

\* a thread at the head of the visit loop (lines 790, 859)
VisitWorker ==
    [pc |-> "visit", sf |-> 0, match |-> FALSE, reason |-> kExitNone,
     calls |-> <<>>, visited |-> 0]

\* (mutant of accept_paths: only the first path of the file is tried)
accept_first_path(no) == accept_path(files_[no + 1].paths[1])

\* the loop of lines 174-180 over the paths of file no
accept_paths(no) ==
    \E k \in 1..Len(files_[no + 1].paths) : accept_path(files_[no + 1].paths[k])

\* a finalized corpus, a running query with a path filter or without, and
\* the pool threads in the visit loop; the cache as line 103 leaves it
InitRace ==
    /\ \E ins \in SearchCorpora :
          /\ ingested = ins
          /\ LET cs == build(EmptyCorpus, ins)
             IN /\ files_ = cs.files_
                /\ lines_ = cs.lines_
                /\ chunks = [c \in 1..Len(cs.chunks) |-> finalize_chunk(cs.chunks[c])]
                /\ stats_ = cs.stats_
    /\ finalized_ = TRUE
    /\ crashed = FALSE
    /\ FLAGS \in {DefaultFlags, [DefaultFlags EXCEPT !.max_matches = SmallCap]}
    /\ \E fp \in FilePats :
          query = [state |-> "running", pat |-> PatDot, file_pat |-> fp,
                   index_ |-> <<>>]
    /\ exit_reason_ = kExitNone
    /\ matches_ = 0
    /\ searcher_files_ = [k \in 0..(Len(files_) - 1) |-> kUnknown]
    /\ files_density_ = [known |-> FALSE, hits |-> 0, sample |-> 0]
    /\ expired = FALSE
    /\ results = <<>>
    /\ pool = <<>>
    /\ workers = [t \in 1..Threads |-> VisitWorker]
    /\ pending = Len(chunks)
    /\ matches = 0
    /\ stats = [why |-> kExitNone, matches |-> 0]
    /\ popped = <<>>

\* what a step of the visit loop does not touch
RaceFrame ==
    UNCHANGED <<files_, lines_, chunks, stats_, finalized_, ingested, crashed,
                FLAGS, query, files_density_, expired, results, pool, pending,
                matches, stats, popped>>

\* accept(sf) returns ret to the loop (lines 791-792, 860-861)
accept_return(w, ret) ==
    [w EXCEPT !.pc = IF ret THEN "ee_reason" ELSE "visit",
              !.calls = Append(w.calls, [sf |-> w.sf, ret |-> ret]),
              !.visited = w.visited + 1]

\* the loop takes its next file and calls accept(sf): lines 168-173, up to
\* the read of files_[sf->no]
AcceptTest(t) ==
    /\ workers[t].pc = "visit"
    /\ workers[t].visited < MaxVisits
    /\ \E no \in 0..(Len(files_) - 1) :
          LET w == [workers[t] EXCEPT !.sf = no]
          IN workers' = [workers EXCEPT ![t] =
                 IF query.file_pat = "" THEN accept_return(w, TRUE)
                 ELSE IF searcher_files_[no] = kUnknown
                 THEN [w EXCEPT !.pc = "ac_store", !.match = accept_paths(no)]
                 ELSE [w EXCEPT !.pc = "ac_ret"]]
    /\ UNCHANGED <<exit_reason_, matches_, searcher_files_>>
    /\ RaceFrame

\* line 181: files_[sf->no] = match
AcceptStore(t) ==
    /\ workers[t].pc = "ac_store"
    /\ searcher_files_' = [searcher_files_ EXCEPT ![workers[t].sf] =
                              IF workers[t].match THEN 1 ELSE 0]
    /\ workers' = [workers EXCEPT ![t].pc = "ac_ret"]
    /\ UNCHANGED <<exit_reason_, matches_>>
    /\ RaceFrame

\* line 184: return files_[sf->no]
AcceptReturn(t) ==
    /\ workers[t].pc = "ac_ret"
    /\ workers' = [workers EXCEPT ![t] =
                      accept_return(workers[t], searcher_files_[workers[t].sf] # 0)]
    /\ UNCHANGED <<exit_reason_, matches_, searcher_files_>>
    /\ RaceFrame

\* exit_early(), lines 276-277: the read of exit_reason_
ExitTestReason(t) ==
    /\ workers[t].pc = "ee_reason"
    /\ workers' = [workers EXCEPT ![t].pc =
                      IF exit_reason_ # kExitNone THEN "left" ELSE "ee_matches"]
    /\ UNCHANGED <<exit_reason_, matches_, searcher_files_>>
    /\ RaceFrame

\* exit_early(), line 279: matches_.load() >= FLAGS_max_matches
ExitTestMatches(t) ==
    /\ workers[t].pc = "ee_matches"
    /\ workers' = [workers EXCEPT ![t] =
                      IF matches_ >= FLAGS.max_matches
                      THEN [@ EXCEPT !.pc = "ee_store", !.reason = kExitMatchLimit]
                      ELSE [@ EXCEPT !.pc = "ee_clock"]]
    /\ UNCHANGED <<exit_reason_, matches_, searcher_files_>>
    /\ RaceFrame

\* exit_early(), lines 288-295: gettimeofday against limit_
ExitTestClock(t) ==
    /\ workers[t].pc = "ee_clock"
    /\ workers' = [workers EXCEPT ![t] =
                      IF expired
                      THEN [@ EXCEPT !.pc = "ee_store", !.reason = kExitTimeout]
                      ELSE [@ EXCEPT !.pc = "match"]]
    /\ UNCHANGED <<exit_reason_, matches_, searcher_files_>>
    /\ RaceFrame

\* exit_early(), lines 280 and 292: the store to exit_reason_; the loop is
\* left (lines 794-795, 864-865)
ExitStore(t) ==
    /\ workers[t].pc = "ee_store"
    /\ exit_reason_' = workers[t].reason
    /\ workers' = [workers EXCEPT ![t].pc = "left"]
    /\ UNCHANGED <<matches_, searcher_files_>>
    /\ RaceFrame

\* try_match for a file that holds the line under a new path: ++matches_
\* (line 948), then the next turn of the loop
VisitMatch(t) ==
    /\ workers[t].pc = "match"
    /\ matches_' = matches_ + 1
    /\ workers' = [workers EXCEPT ![t].pc = "visit"]
    /\ UNCHANGED <<exit_reason_, searcher_files_>>
    /\ RaceFrame

VisitStep(t) ==
    \/ AcceptTest(t)
    \/ AcceptStore(t)
    \/ AcceptReturn(t)
    \/ ExitTestReason(t)
    \/ ExitTestMatches(t)
    \/ ExitTestClock(t)
    \/ ExitStore(t)
    \/ VisitMatch(t)

NextRace == Deadline \/ \E t \in 1..Threads : VisitStep(t)

SpecRace == InitRace /\ [][NextRace]_vars

\* C23: File-accept cache is race-tolerant - whatever the interleaving of
\* the threads' reads and writes of files_[sf->no], every call of accept(sf)
\* returns whether some path of sf passes the path filter, and a cache entry
\* that is no longer 0xff holds that answer and is never changed again.
C23_AcceptCacheRaceTolerant ==
    /\ [](\A t \in 1..Threads : \A k \in 1..Len(workers[t].calls) :
             workers[t].calls[k].ret = FileMatches(workers[t].calls[k].sf))
    /\ [](\A no \in DOMAIN searcher_files_ :
             searcher_files_[no] # kUnknown
             => searcher_files_[no] = IF FileMatches(no) THEN 1 ELSE 0)
    /\ [][\A no \in DOMAIN searcher_files_ :
             searcher_files_[no] # kUnknown
             => searcher_files_'[no] = searcher_files_[no]]_vars

\* C23 witness: a thread stores its decision for a file whose entry another
\* thread, which had read 0xff too, has already filled in and returned
C23_Witness ==
    \E t, u \in 1..Threads :
        /\ t # u
        /\ workers[t].pc = "ac_store"
        /\ searcher_files_[workers[t].sf] # kUnknown
        /\ \E k \in 1..Len(workers[u].calls) :
              workers[u].calls[k].sf = workers[t].sf
        /\ Len(files_[workers[t].sf + 1].paths) > 1

\* C25: Exit reason is stable - once exit_reason_ is MATCH_LIMIT or TIMEOUT
\* no step of any thread changes it.
C25_ExitReasonStable ==
    [][exit_reason_ # kExitNone => exit_reason_' = exit_reason_]_vars

\* search_lines hands its next range to full_search (line 663)
RangeHanded(t) == workers[t].pc = "lines" /\ workers'[t].pc = "scan"

\* C24: No duplicate confirmation - every range search_lines hands to
\* full_search for a chunk starts at or after the end of the range handed
\* before it, and no MatchResult (a line with its contexts) is pushed twice
\* in one query.
C24_NoDuplicateConfirmation ==
    /\ [][\A t \in 1..Threads :
             RangeHanded(t) => workers'[t].pos >= workers[t].maxpos]_vars
    /\ [](\A i \in 1..Len(Pushed) : \A j \in (i + 1)..Len(Pushed) :
             Pushed[i] # Pushed[j])

\* everything pushed to the result queue so far, in the order of the pushes
History == popped \o results

\* C26: No lost results - every MatchResult of a chunk is pushed before the
\* chunk's sentinel, and a thread gives up a result it holds only by pushing
\* it; the queue hands over what was pushed, in order, nothing dropped and
\* nothing twice; so when match_internal returns no thread holds a result,
\* the queue is empty and the callback has had every pushed result once.
C26_NoLostResults ==
    /\ [](\A k \in 1..Len(History) : \A j \in 1..Len(History) :
             (History[k].null /\ ~History[j].null
              /\ History[j].chunk = History[k].chunk) => j < k)
    /\ [](\A t \in 1..Threads : \A k \in 1..Len(History) :
             (History[k].null /\ workers[t].chunk = History[k].chunk)
             => workers[t].pc \notin {"publish", "try"})
    /\ [][\A t \in 1..Threads :
             (workers[t].pc = "publish" /\ Moves(t))
             => /\ History' = Append(History, Head(workers[t].out))
                /\ workers'[t].out = Tail(workers[t].out)]_vars
    /\ [][\/ History' = History
          \/ \E t \in 1..Threads :
                /\ Moves(t)
                /\ workers[t].pc \in {"publish", "sentinel"}
                /\ Len(History') = Len(History) + 1
                /\ SubSeq(History', 1, Len(History)) = History]_vars
    /\ [](QueryDone
          => /\ results = <<>>
             /\ pool = <<>>
             /\ \A t \in 1..Threads : workers[t].pc = "idle"
             /\ matches = Len(Pushed)
             /\ Delivered = Pushed)

\* C26 witness: match_internal has returned after two workers' results went
\* through the queue mixed: a result of one chunk was delivered after
\* another chunk's sentinel and before its own
C26_Witness ==
    /\ QueryDone
    /\ \E j, k \in 1..Len(popped) :
          /\ k < j
          /\ popped[k].null /\ ~popped[j].null
          /\ popped[k].chunk # popped[j].chunk
    /\ \E i, j \in 1..Len(popped) :
          /\ i < j
          /\ ~popped[i].null /\ ~popped[j].null
          /\ popped[i].chunk # popped[j].chunk

\* the MatchResults the threads 1..n hold and have not pushed yet: the
\* entries of the group a thread is building and the results it is publishing
RECURSIVE Held(_)
Held(n) ==
    IF n = 0 THEN 0
    ELSE Held(n - 1) + Len(workers[n].group) + Len(workers[n].out)

\* C27: Counter consistency - at every moment of a query matches_ is the
\* number of MatchResults pushed plus the group entries and results the
\* threads still hold, so every increment stands for exactly one MatchResult;
\* and when the query completes, whatever the exit reason, matches_ is the
\* number of results the consumer counted (stats.matches).
C27_CounterConsistency ==
    /\ query.state = "running" => matches_ = Len(Pushed) + Held(Threads)
    /\ QueryDone => (matches_ = stats.matches /\ Held(Threads) = 0)

\* C27 witness: a query stopped by the match limit has completed with more
\* results counted than the limit allows
C27_Witness ==
    /\ QueryDone
    /\ stats.why = kExitMatchLimit
    /\ stats.matches > FLAGS.max_matches
    /\ matches_ = stats.matches

====
